---- MODULE Spec2Model ----
(***************************************************************************)
(* A model of insta_reposter.py: the repost history (ledger) and its file, *)
(* the ConnectionPoolManager, the repost_media worker and the              *)
(* check_and_repost dispatcher that runs workers in a thread pool.         *)
(*                                                                         *)
(* Spec      : one process lifetime: check_and_repost runs, the executor    *)
(*             threads in repost_media, the ledger and its file, time.      *)
(* CrashSpec : lifetimes separated by crashes and restarts.                 *)
(* PoolSpec  : the connection pool under threads that take, hold and        *)
(*             release connections, the cleanup thread and time.            *)
(* LiveSpec  : a lifetime under fair scheduling of the executor threads.    *)
(* LimiterSpec, WaitSpec : the RateLimiter objects and with_rate_limit.     *)
(* JanitorSpec : MemoryManager.cleanup_old_media over the media folder.     *)
(* ItemSpec  : one item through lines 529-626 of repost_media, step by      *)
(*             step, with its local files and remote calls.                 *)
(* FetchSpec : get_saved_posts.                                             *)
(* DownloadSpec : download_media and the with_rate_limit wrappers.          *)
(* RunSpec   : check_and_repost up to the executor.                         *)
(* SessionSpec : SessionManager.refresh_if_needed under two threads.        *)
(* BootSpec  : the module's top level from line 845 on, main's loop and     *)
(*             memory_thread, under fair scheduling.                        *)
(* StoreSpec : the media folder under the workers and cleanup_old_media.    *)
(* TopUpSpec : the pool lock under get_connection, release_connection and   *)
(*             cleanup_stale_connections, under fair scheduling.            *)
(***************************************************************************)
EXTENDS Integers, Sequences, FiniteSets, TLC

(* ---------------- configuration and bounds ---------------- *)

\* MAX_WORKERS: the executor's thread count, read from the environment
\* (line 28); the model runs with MAX_WORKERS=2.
MAX_WORKERS == 2
\* ConnectionPoolManager.__init__ defaults (line 410).
min_connections == 2
max_connections == 5
\* Item ids the platform may list.
MaxId == 2
\* Longest saved-item listing of one run.
MaxListing == 3
\* Largest timeout (in sleep(1) periods) a caller passes to get_connection.
MaxTimeout == 2
\* Most resources of an album.
MaxResources == 2

Workers == 1..MAX_WORKERS
\* The thread running cleanup_connections.
Cleaner == MAX_WORKERS + 1
Ids == 1..MaxId

\* The module-level `client` (line 36); Client() objects made by
\* _add_connection are numbered from 1.
GlobalClient == 0
NoClient == -1
FreshIds == 1..(max_connections + MAX_WORKERS + 1)

\* media.product_type of a video: regular, IGTV, reels, anything else.
ProductTypes == {"", "igtv", "clips", "feed"}

\* instagrapi Media as repost_media reads it: id, media_type (1 photo,
\* 2 video, 8 album), product_type, number of resources.
Medias ==
  {[id |-> i, media_type |-> 1, product_type |-> "", resources |-> 0] : i \in Ids}
  \cup {[id |-> i, media_type |-> 2, product_type |-> p, resources |-> 0] :
          i \in Ids, p \in ProductTypes}
  \cup {[id |-> i, media_type |-> 8, product_type |-> "", resources |-> n] :
          i \in Ids, n \in 1..MaxResources}
NoMedia == 0

VARIABLES
  saved_posts_history,  \* the in-memory ledger (line 40)
  file,                 \* HISTORY_FILE: [ok, ids, size]
  buf,                  \* per worker: the list json.dump is writing
  MOVIEPY_AVAILABLE,    \* line 44, set by check_dependencies
  pool,                 \* ConnectionPoolManager._pool (a list)
  in_use,               \* keys of ConnectionPoolManager._in_use
  stale,                \* keys of _in_use older than max_age
  lock,                 \* ConnectionPoolManager._lock: 0 or the holder
  cpc,                  \* position of the cleanup thread
  queue,                \* media ids submitted to the executor, not yet started
  pc,                   \* per worker: position in repost_media
  media,                \* per worker: media_id of the item being processed
  client,               \* per worker: repost_media's local `client`
  repost_successful,    \* per worker: the local flag
  elapsed,              \* per worker: time.time() - start_time in get_connection
  timeout,              \* per worker: get_connection's timeout
  called,               \* per worker: a like/download/upload/unsave call was made for the item
  startedInLedger,      \* per worker: the id was in the ledger when the task started
  fullSince,            \* per worker: pool full, nothing released since get_connection began
  pubLife,              \* per id: successful upload calls in this process
  committed,            \* ids that a completed save_history has put in the file
  evicted,              \* a stale eviction has happened in this process
  cleaned,              \* a cleanup_stale_connections pass has completed in this process
  status,               \* per worker: what repost_media has logged for the item
  saveFailed,           \* per worker: save_history caught an exception
  limiter,              \* per operation class: the RateLimiter's current_delay, last_attempt
  failures,             \* per operation class: failure() calls since the last reset
  now,                  \* time.time(), in seconds
  rl_pc,                \* per worker: position in with_rate_limit's wrapper
  rl_class,             \* per worker: the limiter of the wrapper it is in
  rl_now,               \* per worker: wait()'s local `now`
  rl_wake,              \* per worker: when the wrapper's current sleep ends
  rl_attempt,           \* per worker: the wrapper's `attempt`
  lastProceed,          \* per operation class: when wait() last returned
  early,                \* per operation class: wait() returned too soon after the previous return
  mm,                   \* the media folder and the cleanup_old_media pass over it
  job,                  \* one item in lines 529-626 of repost_media
  gsp,                  \* a call of get_saved_posts
  dl,                   \* a call of download_media
  run,                  \* check_and_repost up to the executor
  sm,                   \* the SessionManager: last_refresh, its lock, the threads in it
  boot,                 \* the interpreter's place in the module, main and memory_thread
  store,                \* the media folder's subfolders, the workers at them, the janitor's pass
  topup                 \* the pool's lock, its size, the cleanup thread and the threads in get_connection

vars == <<saved_posts_history, file, buf, MOVIEPY_AVAILABLE, pool, in_use,
          stale, lock, cpc, queue, pc, media, client, repost_successful,
          elapsed, timeout, called, startedInLedger, fullSince,
          pubLife, committed, evicted, cleaned, status, saveFailed,
          limiter, failures, now, rl_pc, rl_class, rl_now, rl_wake,
          rl_attempt, lastProceed, early, mm, job, gsp, dl, run, sm, boot, store, topup>>

ledgerVars == <<saved_posts_history, file, buf>>
poolVars == <<pool, in_use, stale, lock, cpc, evicted, cleaned>>
ghostPub == <<pubLife, committed>>
taskVars == <<media, repost_successful, called, startedInLedger,
              status, saveFailed>>
timeVars == <<elapsed, timeout, fullSince>>
limiterVars == <<limiter, failures>>
waitVars == <<now, rl_pc, rl_class, rl_now, rl_wake, rl_attempt, lastProceed,
             early>>

\* What the ledger, the pool and repost_media's workers leave alone.
auxVars == <<limiterVars, waitVars, mm, job, gsp, dl, run, sm, boot, store, topup>>

\* What the other components leave alone.
coreVars == <<saved_posts_history, file, buf, MOVIEPY_AVAILABLE, pool, in_use,
              stale, lock, cpc, queue, pc, media, client, repost_successful,
              elapsed, timeout, called, startedInLedger, fullSince, pubLife,
              committed, evicted, cleaned, status, saveFailed>>

(* ---------------- helpers ---------------- *)

Range(s) == {s[i] : i \in 1..Len(s)}

Min(S) == CHOOSE x \in S : \A y \in S : x <= y

\* The subsequence of s at the indices in I, in order.
RECURSIVE SubSeqAt(_, _)
SubSeqAt(s, I) ==
  IF I = {} THEN <<>>
  ELSE LET i == Min(I) IN <<s[i]>> \o SubSeqAt(s, I \ {i})

\* list.remove(c) for every c in S: each loses its first occurrence.
RemoveFirstOfEach(s, S) ==
  SubSeqAt(s, {i \in 1..Len(s) :
                 ~(s[i] \in S /\ \A j \in 1..(i - 1) : s[j] # s[i])})

\* A Client() object no one refers to.
FreshClient ==
  Min({c \in FreshIds :
         /\ c \notin Range(pool)
         /\ c \notin in_use
         /\ \A w \in Workers : client[w] # c})

(* ---------------- ConnectionPoolManager ---------------- *)

\* _add_connection (lines 420-450).  how = "cookies": the cookie file loads
\* and get_timeline_feed succeeds, a new Client is appended; "login": login()
\* returns True and the global client is appended; "none": None is returned.
AddHow == {"cookies", "login", "none"}

add_connection_client(how) ==
  CASE how = "cookies" -> FreshClient
    [] how = "login" -> GlobalClient
    [] OTHER -> NoClient

add_connection_pool(how) ==
  IF how = "none" THEN pool ELSE Append(pool, add_connection_client(how))

\* Line 459: the clients of the pool that are not keys of _in_use (the loop
\* of line 458 takes the first).
Available == {i \in 1..Len(pool) : pool[i] \notin in_use}

\* Line 464 with `<=` for `<`.
CanGrow_inclusive == Len(pool) <= max_connections

\* Line 464.
CanGrow == Len(pool) < max_connections

\* Line 455 as `while True`.
Expired_never(w) == FALSE

\* Line 455: the loop goes on while time.time() - start_time < timeout.
Expired(w) == ~(elapsed[w] < timeout[w])

\* The pool is at max_connections and every connection is checked out.
PoolFull == Len(pool) = max_connections /\ Range(pool) \subseteq in_use

GcStates == {"gc_test", "gc_lock", "gc_add", "gc_sleep", "gc_wake"}

\* The thread is at `with self._lock` (line 456): the loop test of line 455
\* was true.
AtLock(w) == (pc[w] = "gc_test" /\ ~Expired(w)) \/ pc[w] = "gc_lock"

\* get_connection is called with timeout t (line 454).
get_connection_call(w, t) ==
  /\ pc' = [pc EXCEPT ![w] = "gc_test"]
  /\ elapsed' = [elapsed EXCEPT ![w] = 0]
  /\ timeout' = [timeout EXCEPT ![w] = t]
  /\ fullSince' = [fullSince EXCEPT ![w] = PoolFull]

\* Lines 460-461 / 467-468: c is recorded in _in_use and returned to w.
Checkout(w, c) ==
  /\ in_use' = in_use \cup {c}
  /\ stale' = stale \ {c}
  /\ client' = [client EXCEPT ![w] = c]
  /\ pc' = [pc EXCEPT ![w] = "check"]
  /\ elapsed' = [elapsed EXCEPT ![w] = 0]
  /\ timeout' = [timeout EXCEPT ![w] = 0]
  /\ fullSince' = [fullSince EXCEPT ![w] = FALSE]

\* Line 455, loop test true, and `with self._lock` (line 456) has to wait
\* for the holder of the lock.
get_connection_enter(w) ==
  /\ pc[w] = "gc_test"
  /\ ~Expired(w)
  /\ lock # 0
  /\ pc' = [pc EXCEPT ![w] = "gc_lock"]
  /\ UNCHANGED <<ledgerVars, MOVIEPY_AVAILABLE, auxVars, poolVars, queue, client,
                 taskVars, timeVars, ghostPub>>

\* Line 473: TimeoutError, caught at line 628; client is None, so no release.
get_connection_timeout(w) ==
  /\ pc[w] = "gc_test"
  /\ Expired(w)
  /\ pc' = [pc EXCEPT ![w] = "timed_out"]
  /\ status' = [status EXCEPT ![w] = "error"]
  /\ UNCHANGED <<ledgerVars, MOVIEPY_AVAILABLE, auxVars, poolVars, queue, client,
                 media, repost_successful, called, startedInLedger,
                 saveFailed, timeVars, ghostPub>>

\* Lines 456-461: under the lock, a free client is found and returned.
get_connection_reuse(w) ==
  /\ AtLock(w)
  /\ lock = 0
  /\ Available # {}
  /\ Checkout(w, pool[Min(Available)])
  /\ UNCHANGED <<ledgerVars, MOVIEPY_AVAILABLE, auxVars, pool, lock, cpc, evicted, cleaned,
                 queue, taskVars, ghostPub>>

\* Lines 464-465: none free, below max: _add_connection runs under the lock.
get_connection_grow(w) ==
  /\ AtLock(w)
  /\ lock = 0
  /\ Available = {}
  /\ CanGrow
  /\ lock' = w
  /\ pc' = [pc EXCEPT ![w] = "gc_add"]
  /\ UNCHANGED <<ledgerVars, MOVIEPY_AVAILABLE, auxVars, pool, in_use, stale, cpc,
                 evicted, cleaned, queue, client, taskVars, timeVars, ghostPub>>

\* Lines 464, 471: none free, at max: leave the lock and sleep(1).
get_connection_wait(w) ==
  /\ AtLock(w)
  /\ lock = 0
  /\ Available = {}
  /\ ~CanGrow
  /\ pc' = [pc EXCEPT ![w] = "gc_sleep"]
  /\ UNCHANGED <<ledgerVars, MOVIEPY_AVAILABLE, auxVars, poolVars, queue, client,
                 taskVars, timeVars, ghostPub>>

\* Lines 465-468: _add_connection returned a client ("cookies" or "login"),
\* which is handed out.
get_connection_added(w, how) ==
  /\ pc[w] = "gc_add"
  /\ how # "none"
  /\ pool' = add_connection_pool(how)
  /\ Checkout(w, add_connection_client(how))
  /\ lock' = 0
  /\ UNCHANGED <<ledgerVars, MOVIEPY_AVAILABLE, auxVars, cpc, evicted, cleaned, queue,
                 taskVars, ghostPub>>

\* Lines 444-450, 466, 471: _add_connection returned None; sleep(1).
get_connection_add_failed(w) ==
  /\ pc[w] = "gc_add"
  /\ pool' = add_connection_pool("none")
  /\ lock' = 0
  /\ pc' = [pc EXCEPT ![w] = "gc_sleep"]
  /\ UNCHANGED <<ledgerVars, MOVIEPY_AVAILABLE, auxVars, in_use, stale, cpc, evicted, cleaned,
                 queue, client, taskVars, timeVars, ghostPub>>

\* Line 471 ends: back to the loop test.
get_connection_wake(w) ==
  /\ pc[w] = "gc_wake"
  /\ pc' = [pc EXCEPT ![w] = "gc_test"]
  /\ UNCHANGED <<ledgerVars, MOVIEPY_AVAILABLE, auxVars, poolVars, queue, client,
                 taskVars, timeVars, ghostPub>>

\* Line 479 left out: the key stays in _in_use.
Released_kept(c) == in_use

\* Line 479: the key leaves _in_use.
Released(c) == in_use \ {c}

\* release_connection (lines 475-479), called from repost_media's finally
\* (lines 630-632); repost_media then returns.
release_connection(w) ==
  /\ pc[w] = "release"
  /\ lock = 0
  /\ in_use' = Released(client[w])
  /\ stale' = stale \ {client[w]}
  /\ fullSince' = [v \in Workers |->
                     IF client[w] \in in_use THEN FALSE ELSE fullSince[v]]
  /\ client' = [client EXCEPT ![w] = NoClient]
  /\ pc' = [pc EXCEPT ![w] = "idle"]
  /\ media' = [media EXCEPT ![w] = NoMedia]
  /\ repost_successful' = [repost_successful EXCEPT ![w] = FALSE]
  /\ called' = [called EXCEPT ![w] = FALSE]
  /\ startedInLedger' = [startedInLedger EXCEPT ![w] = FALSE]
  /\ status' = [status EXCEPT ![w] = ""]
  /\ saveFailed' = [saveFailed EXCEPT ![w] = FALSE]
  /\ UNCHANGED <<ledgerVars, MOVIEPY_AVAILABLE, auxVars, pool, lock, cpc, evicted, cleaned,
                 queue, elapsed, timeout, ghostPub>>

\* repost_media returns after the TimeoutError was logged (lines 628-631).
repost_media_return(w) ==
  /\ pc[w] = "timed_out"
  /\ pc' = [pc EXCEPT ![w] = "idle"]
  /\ media' = [media EXCEPT ![w] = NoMedia]
  /\ startedInLedger' = [startedInLedger EXCEPT ![w] = FALSE]
  /\ status' = [status EXCEPT ![w] = ""]
  /\ elapsed' = [elapsed EXCEPT ![w] = 0]
  /\ timeout' = [timeout EXCEPT ![w] = 0]
  /\ fullSince' = [fullSince EXCEPT ![w] = FALSE]
  /\ UNCHANGED <<ledgerVars, MOVIEPY_AVAILABLE, auxVars, poolVars, queue, client,
                 repost_successful, called, saveFailed, ghostPub>>

\* A checked-out client has been held for more than max_age seconds
\* (line 489 will find current_time - start_time > max_age).
age(c) ==
  /\ c \in in_use \ stale
  /\ stale' = stale \cup {c}
  /\ UNCHANGED <<ledgerVars, MOVIEPY_AVAILABLE, auxVars, pool, in_use, lock, cpc,
                 evicted, cleaned, queue, pc, client, taskVars, timeVars, ghostPub>>

\* cleanup_stale_connections, lines 483-497: under the lock, stale clients
\* leave _in_use and the pool (list.remove: the first occurrence).
cleanup_evicted_pool == RemoveFirstOfEach(pool, stale)

\* Line 500 with the top-up loop never entered.
BelowMin_never(p) == FALSE

\* Line 500.
BelowMin(p) == Len(p) < min_connections

cleanup_stale_connections_evict ==
  /\ cpc = "idle"
  /\ lock = 0
  /\ pool' = cleanup_evicted_pool
  /\ in_use' = in_use \ stale
  /\ stale' = {}
  /\ evicted' = (evicted \/ stale # {})
  /\ fullSince' = [v \in Workers |-> IF stale # {} THEN FALSE ELSE fullSince[v]]
  /\ IF BelowMin(cleanup_evicted_pool)
       THEN lock' = Cleaner /\ cpc' = "add" /\ UNCHANGED cleaned
       ELSE lock' = 0 /\ cpc' = "idle" /\ cleaned' = TRUE
  /\ UNCHANGED <<ledgerVars, MOVIEPY_AVAILABLE, auxVars, queue, pc, client, taskVars,
                 elapsed, timeout, ghostPub>>

\* Lines 500-501: one _add_connection call of the loop, still under the lock.
cleanup_stale_connections_add ==
  /\ cpc = "add"
  /\ \E how \in AddHow :
       /\ pool' = add_connection_pool(how)
       /\ IF BelowMin(add_connection_pool(how))
            THEN lock' = Cleaner /\ cpc' = "add" /\ UNCHANGED cleaned
            ELSE lock' = 0 /\ cpc' = "idle" /\ cleaned' = TRUE
  /\ UNCHANGED <<ledgerVars, MOVIEPY_AVAILABLE, auxVars, in_use, stale, evicted, queue,
                 pc, client, taskVars, timeVars, ghostPub>>

\* A thread that must act before time passes: the loop test, the lock when
\* it is free, the end of sleep(1).
Urgent(w) ==
  \/ pc[w] \in {"gc_test", "gc_wake"}
  \/ AtLock(w) /\ lock = 0

\* One sleep(1) period passes.
Tick ==
  /\ \E w \in Workers : pc[w] \in GcStates
  /\ \A w \in Workers : ~Urgent(w)
  /\ elapsed' = [w \in Workers |->
                   IF pc[w] \in GcStates /\ elapsed[w] <= timeout[w]
                     THEN elapsed[w] + 1 ELSE elapsed[w]]
  /\ pc' = [w \in Workers |-> IF pc[w] = "gc_sleep" THEN "gc_wake" ELSE pc[w]]
  /\ UNCHANGED <<ledgerVars, MOVIEPY_AVAILABLE, auxVars, poolVars, queue, client,
                 taskVars, timeout, fullSince, ghostPub>>

\* A thread takes a connection (get_connection with some timeout) and, once
\* it has one, holds it until it calls release_connection.
acquire(w) ==
  /\ pc[w] = "idle"
  /\ \E t \in 1..MaxTimeout : get_connection_call(w, t)
  /\ UNCHANGED <<ledgerVars, MOVIEPY_AVAILABLE, auxVars, poolVars, queue, client,
                 taskVars, ghostPub>>

hold(w) ==
  /\ pc[w] = "check"
  /\ pc' = [pc EXCEPT ![w] = "release"]
  /\ UNCHANGED <<ledgerVars, MOVIEPY_AVAILABLE, auxVars, poolVars, queue, client,
                 taskVars, timeVars, ghostPub>>

(* ---------------- the ledger and its file ---------------- *)

\* HISTORY_FILE as load_history sees it: ok (json.load succeeds), the ids it
\* holds, and its length (counted in ids).  No file at all reads as no ids.
NoFile == [ok |-> TRUE, ids |-> {}, size |-> 0]

\* open(HISTORY_FILE, "w") (line 125): the file is emptied; an empty file
\* is not JSON.
Truncated == [ok |-> FALSE, ids |-> {}, size |-> 0]

\* The buffered json.dump output reaches the file when it is closed (lines
\* 125-126): written from offset 0, over what is there, without cutting a
\* longer content another handle wrote meanwhile.
Written(f, snapshot) ==
  IF Cardinality(snapshot) >= f.size
    THEN [ok |-> TRUE, ids |-> snapshot, size |-> Cardinality(snapshot)]
    ELSE [ok |-> FALSE, ids |-> {}, size |-> f.size]

\* load_history (lines 106-119): the file's ids, or the empty set when
\* json.load raises.
load_history(f) == IF f.ok THEN f.ids ELSE {}

\* Line 525 and line 731.
InLedger(id) == id \in saved_posts_history

(* ---------------- check_and_repost ---------------- *)

\* The media ids of a saved-posts listing.
Listings == UNION {[1..n -> Ids] : n \in 1..MaxListing}

\* The listings that name no id twice.
UniqueListings ==
  {l \in Listings : \A i, j \in 1..Len(l) : l[i] = l[j] => i = j}

\* Line 731.
to_repost(saved_medias) ==
  SelectSeq(saved_medias, LAMBDA id : ~InLedger(id))

\* Lines 699-741: the saved list is fetched, filtered against the ledger and
\* submitted to the executor.  The `with` block (line 739) ends only when
\* every task has finished, so runs do not overlap.
check_and_repost(saved_medias) ==
  /\ queue = <<>>
  /\ \A w \in Workers : pc[w] = "idle"
  /\ queue' = to_repost(saved_medias)
  /\ UNCHANGED <<ledgerVars, MOVIEPY_AVAILABLE, auxVars, poolVars, pc, client,
                 taskVars, timeVars, ghostPub>>

(* ---------------- repost_media ---------------- *)

\* An executor thread takes the next task; repost_media starts with
\* get_connection (lines 521-524), called with its default timeout.
repost_media_start(w) ==
  /\ pc[w] = "idle"
  /\ queue # <<>>
  /\ media' = [media EXCEPT ![w] = Head(queue)]
  /\ queue' = Tail(queue)
  /\ get_connection_call(w, MaxTimeout)
  /\ startedInLedger' =
       [startedInLedger EXCEPT ![w] = Head(queue) \in saved_posts_history]
  /\ UNCHANGED <<ledgerVars, MOVIEPY_AVAILABLE, auxVars, poolVars, client,
                 repost_successful, called, status, saveFailed,
                 ghostPub>>

\* Lines 525-527: the entry guard.
repost_media_check(w) ==
  /\ pc[w] = "check"
  /\ IF InLedger(media[w])
       THEN /\ pc' = [pc EXCEPT ![w] = "release"]
            /\ status' = [status EXCEPT ![w] = "skipped"]
       ELSE /\ pc' = [pc EXCEPT ![w] = "process"]
            /\ UNCHANGED status
  /\ UNCHANGED <<ledgerVars, MOVIEPY_AVAILABLE, auxVars, poolVars, queue, client,
                 media, repost_successful, called, startedInLedger,
                 saveFailed, timeVars, ghostPub>>

\* Lines 567-569: a video without MoviePy; repost_media returns.
VideoSkipped(m) == m.media_type = 2 /\ ~MOVIEPY_AVAILABLE

\* What the download step may leave: the path of a photo or video (lines
\* 547, 573) or nothing (download_media raised); for an album the paths of
\* the resources whose download did not fail (lines 595-604).
Downloads(m) ==
  IF m.media_type = 8 THEN SUBSET (1..m.resources) ELSE {{}, {1}}

\* The upload call repost_media makes for m with the paths `got` (lines
\* 556, 576-581, 606-608), "none" when it makes none.
UploadCall(m, got) ==
  CASE m.media_type = 1 /\ got # {} -> "photo_upload"
    [] m.media_type = 2 /\ got # {} /\ m.product_type = "" -> "video_upload"
    [] m.media_type = 2 /\ got # {} /\ m.product_type = "igtv" -> "igtv_upload"
    [] m.media_type = 2 /\ got # {} /\ m.product_type = "clips" -> "clip_upload"
    [] m.media_type = 8 /\ got # {} -> "album_upload"
    [] OTHER -> "none"

\* The upload call was made and returned.
UploadReturned(m, got, upload_ok) == UploadCall(m, got) # "none" /\ upload_ok

\* repost_successful at line 621 (set at lines 558, 584, 610): the upload
\* returned; for a video, lines 583-584 follow the if/elif chain whether or
\* not a branch of it made a call.
RepostSuccessful(m, got, upload_ok) ==
  /\ got # {}
  /\ \/ UploadReturned(m, got, upload_ok)
     \/ UploadCall(m, got) = "none" /\ m.media_type = 2

\* Lines 529-536 and 566-569: the like (a failure is only logged), then a
\* video without MoviePy returns at once.
repost_media_video_skip(w) ==
  /\ pc[w] = "process"
  /\ \E m \in Medias : m.id = media[w] /\ VideoSkipped(m)
  /\ called' = [called EXCEPT ![w] = TRUE]
  /\ status' = [status EXCEPT ![w] = "video_skipped"]
  /\ pc' = [pc EXCEPT ![w] = "release"]
  /\ UNCHANGED <<ledgerVars, MOVIEPY_AVAILABLE, auxVars, poolVars, queue, client,
                 media, repost_successful, startedInLedger,
                 saveFailed, timeVars, ghostPub>>

\* Lines 529-626: like, download, upload, unsave and file cleanup of the
\* item, whose kind the platform gave (none of this touches the ledger or the
\* pool); then, lines 621-626, the id enters the ledger and save_history is
\* called, or the warning is logged.
repost_media_process(w) ==
  /\ pc[w] = "process"
  /\ \E m \in Medias :
       /\ m.id = media[w]
       /\ ~VideoSkipped(m)
       /\ \E got \in Downloads(m), upload_ok \in BOOLEAN :
            /\ repost_successful' =
                 [repost_successful EXCEPT ![w] = RepostSuccessful(m, got, upload_ok)]
            /\ pubLife' = [pubLife EXCEPT ![m.id] =
                             IF UploadReturned(m, got, upload_ok) /\ @ < 2
                               THEN @ + 1 ELSE @]
            /\ IF RepostSuccessful(m, got, upload_ok)
                 THEN /\ saved_posts_history' = saved_posts_history \cup {m.id}
                      /\ pc' = [pc EXCEPT ![w] = "save_open"]
                      /\ UNCHANGED status
                 ELSE /\ UNCHANGED saved_posts_history
                      /\ pc' = [pc EXCEPT ![w] = "release"]
                      /\ status' = [status EXCEPT ![w] = "not_successful"]
  /\ called' = [called EXCEPT ![w] = TRUE]
  /\ UNCHANGED <<file, buf, MOVIEPY_AVAILABLE, auxVars, poolVars, queue, client,
                 media, startedInLedger, saveFailed, timeVars, committed>>

\* save_history, lines 125-126: the file is opened for writing, which
\* empties it, and list(saved_posts_history) is encoded into the buffer.
save_history_open(w) ==
  /\ pc[w] = "save_open"
  /\ file' = Truncated
  /\ buf' = [buf EXCEPT ![w] = saved_posts_history]
  /\ pc' = [pc EXCEPT ![w] = "save_close"]
  /\ UNCHANGED <<saved_posts_history, MOVIEPY_AVAILABLE, auxVars, poolVars,
                 queue, client, taskVars, timeVars, ghostPub>>

\* save_history, the end of the `with` block: the file is written and
\* closed; repost_media logs its success (line 624).
save_history_close(w) ==
  /\ pc[w] = "save_close"
  /\ file' = Written(file, buf[w])
  /\ committed' = committed \cup load_history(Written(file, buf[w]))
  /\ buf' = [buf EXCEPT ![w] = {}]
  /\ status' = [status EXCEPT ![w] = "success"]
  /\ pc' = [pc EXCEPT ![w] = "release"]
  /\ UNCHANGED <<saved_posts_history, MOVIEPY_AVAILABLE, auxVars, poolVars, queue,
                 client, media, repost_successful, called, startedInLedger, saveFailed, timeVars, pubLife>>

\* save_history, lines 128-129: open or write raises (no permission, disk
\* full); the error is logged, and repost_media logs its success (line 624).
save_history_failed(w) ==
  /\ pc[w] \in {"save_open", "save_close"}
  /\ saveFailed' = [saveFailed EXCEPT ![w] = TRUE]
  /\ buf' = [buf EXCEPT ![w] = {}]
  /\ status' = [status EXCEPT ![w] = "success"]
  /\ pc' = [pc EXCEPT ![w] = "release"]
  /\ UNCHANGED <<saved_posts_history, file, MOVIEPY_AVAILABLE, auxVars, poolVars,
                 queue, client, media, repost_successful, called, startedInLedger, timeVars, ghostPub>>

(* ---------------- RateLimiter ---------------- *)

\* RateLimiter.__init__ defaults (line 303).
max_delay == 300
backoff_factor == 2

\* Most failure() calls counted after a reset.
MaxFailures == 10

\* The limiter instances (lines 327-329): POST_RATE_LIMITER,
\* LIKE_RATE_LIMITER, MEDIA_RATE_LIMITER.
Classes == {"post", "like", "media"}

initial_delay(c) ==
  CASE c = "post" -> 2
    [] c = "like" -> 1
    [] c = "media" -> 5

Min2(a, b) == IF a <= b THEN a ELSE b

RECURSIVE Pow(_, _)
Pow(b, n) == IF n = 0 THEN 1 ELSE b * Pow(b, n - 1)

\* RateLimiter.__init__ (lines 303-308).
RateLimiter(c) ==
  [initial_delay |-> initial_delay(c), max_delay |-> max_delay,
   backoff_factor |-> backoff_factor, current_delay |-> initial_delay(c),
   last_attempt |-> 0]

\* RateLimiter.success (lines 318-320).
success(l) == [l EXCEPT !.current_delay = l.initial_delay]

\* Line 324 without the min.
failure_uncapped(l) ==
  [l EXCEPT !.current_delay = l.current_delay * l.backoff_factor]

\* RateLimiter.failure (lines 322-324).
failure(l) ==
  [l EXCEPT !.current_delay =
     Min2(l.current_delay * l.backoff_factor, l.max_delay)]

\* success() is called on the limiter of class c.
RateLimiter_success(c) ==
  /\ limiter' = [limiter EXCEPT ![c] = success(@)]
  /\ failures' = [failures EXCEPT ![c] = 0]

\* failure() is called on the limiter of class c.
RateLimiter_failure(c) ==
  /\ failures[c] < MaxFailures
  /\ limiter' = [limiter EXCEPT ![c] = failure(@)]
  /\ failures' = [failures EXCEPT ![c] = @ + 1]

\* Some caller reports the outcome of a call of class c.
report_success(c) ==
  /\ RateLimiter_success(c)
  /\ UNCHANGED <<coreVars, waitVars, mm, job, gsp, dl, run, sm, boot, store, topup>>

report_failure(c) ==
  /\ RateLimiter_failure(c)
  /\ UNCHANGED <<coreVars, waitVars, mm, job, gsp, dl, run, sm, boot, store, topup>>

\* time.time() at the start; last_attempt starts at 0, far in the past.
StartTime == max_delay

(* ---------------- with_rate_limit ---------------- *)

\* How far the clock is followed.
MaxTime == 3

\* Line 334.
max_retries == 3

\* wait(), lines 312-314: how long the caller sleeps.
wait_sleep(l, t) ==
  IF t - l.last_attempt < l.current_delay
    THEN l.current_delay - (t - l.last_attempt)
    ELSE 0

\* wait(), line 316: last_attempt becomes the `now` read at line 312.
wait_done(l, t) == [l EXCEPT !.last_attempt = t]

\* The wrapped methods are those of the global client (lines 351-358), which
\* one thread uses at a time.
WrapperFree(w) == \A v \in Workers \ {w} : rl_pc[v] = "idle"

\* wait(), lines 312-315: `now` is read and the sleep, if any, begins.
wait_begin(w, c) ==
  /\ rl_class' = [rl_class EXCEPT ![w] = c]
  /\ rl_now' = [rl_now EXCEPT ![w] = now]
  /\ rl_wake' = [rl_wake EXCEPT ![w] = now + wait_sleep(limiter[c], now)]
  /\ rl_pc' = [rl_pc EXCEPT ![w] = "wait"]

\* The wrapper is entered (lines 333-337): attempt 0, wait().
wrapper_call(w, c) ==
  /\ rl_pc[w] = "idle"
  /\ WrapperFree(w)
  /\ wait_begin(w, c)
  /\ rl_attempt' = [rl_attempt EXCEPT ![w] = 0]
  /\ UNCHANGED <<coreVars, mm, job, gsp, limiterVars, now, lastProceed, early, dl, run, sm, boot, store, topup>>

\* wait() returns (line 316) once its sleep is over; func is called.
wait_return(w) ==
  /\ rl_pc[w] = "wait"
  /\ now >= rl_wake[w]
  /\ limiter' = [limiter EXCEPT ![rl_class[w]] = wait_done(@, rl_now[w])]
  /\ lastProceed' = [lastProceed EXCEPT ![rl_class[w]] = now]
  /\ early' = [early EXCEPT ![rl_class[w]] =
                 @ \/ now - lastProceed[rl_class[w]] < limiter[rl_class[w]].current_delay]
  /\ rl_pc' = [rl_pc EXCEPT ![w] = "call"]
  /\ UNCHANGED <<coreVars, mm, job, gsp, failures, now, rl_class, rl_now, rl_wake,
                 rl_attempt, dl, run, sm, boot, store, topup>>

\* Lines 337-338: func returned; success(), and the wrapper returns.
wrapper_success(w) ==
  /\ rl_pc[w] = "call"
  /\ RateLimiter_success(rl_class[w])
  /\ rl_pc' = [rl_pc EXCEPT ![w] = "idle"]
  /\ UNCHANGED <<coreVars, mm, job, gsp, now, rl_class, rl_now, rl_wake, rl_attempt,
                 lastProceed, early, dl, run, sm, boot, store, topup>>

\* Lines 339-345: func raised; failure(), then sleep(current_delay) and the
\* next attempt, or the exception is raised again after the last attempt.
wrapper_failure(w) ==
  /\ rl_pc[w] = "call"
  /\ RateLimiter_failure(rl_class[w])
  /\ IF rl_attempt[w] < max_retries - 1
       THEN /\ rl_pc' = [rl_pc EXCEPT ![w] = "retry"]
            /\ rl_wake' = [rl_wake EXCEPT ![w] =
                             now + failure(limiter[rl_class[w]]).current_delay]
            /\ rl_attempt' = [rl_attempt EXCEPT ![w] = @ + 1]
       ELSE /\ rl_pc' = [rl_pc EXCEPT ![w] = "idle"]
            /\ UNCHANGED <<rl_wake, rl_attempt>>
  /\ UNCHANGED <<coreVars, mm, job, gsp, now, rl_class, rl_now, lastProceed, early, dl, run, sm, boot, store, topup>>

\* Line 343 ends: the loop's next attempt calls wait().
wrapper_retry(w) ==
  /\ rl_pc[w] = "retry"
  /\ now >= rl_wake[w]
  /\ wait_begin(w, rl_class[w])
  /\ UNCHANGED <<coreVars, mm, job, gsp, limiterVars, now, rl_attempt, lastProceed, early, dl, run, sm, boot, store, topup>>

\* A second passes; a thread whose sleep is over runs before the next one.
clock ==
  /\ now < StartTime + MaxTime
  /\ \A w \in Workers : rl_pc[w] \in {"wait", "retry"} => now < rl_wake[w]
  /\ now' = now + 1
  /\ UNCHANGED <<coreVars, mm, job, gsp, limiterVars, rl_pc, rl_class, rl_now, rl_wake,
                 rl_attempt, lastProceed, early, dl, run, sm, boot, store, topup>>

(* ---------------- MemoryManager ---------------- *)

\* MemoryManager.__init__ default (line 850): the quota, in MB.
max_folder_size_mb == 500

\* Most subfolders of the media folder.
MaxFolders == 3
\* Sizes are multiples of Granule MB, up to MaxSize of them.
Granule == 250
MaxSize == 3

Sizes == {k * Granule : k \in 0..MaxSize}

\* What the files directly in the media folder weigh.
RootSizes == {0, MaxSize * Granule}

\* os.listdir (line 874): the subfolders in any order, each named here by
\* the rank of its creation time.
FolderListings ==
  UNION {{l \in [1..n -> 1..n] : \A i, j \in 1..n : l[i] = l[j] => i = j} :
           n \in 0..MaxFolders}

\* Line 882 left out: the folders in listing order.
Unsorted(l) == l

RECURSIVE InsertByCtime(_, _)
InsertByCtime(sorted, c) ==
  IF sorted = <<>> THEN <<c>>
  ELSE IF c < Head(sorted) THEN <<c>> \o sorted
  ELSE <<Head(sorted)>> \o InsertByCtime(Tail(sorted), c)

RECURSIVE SortFrom(_, _)
SortFrom(l, sorted) ==
  IF l = <<>> THEN sorted ELSE SortFrom(Tail(l), InsertByCtime(sorted, Head(l)))

\* folders.sort(key=lambda x: x[1]) (line 882): oldest first.
SortByCtime(l) == SortFrom(l, <<>>)

RECURSIVE SumSizes(_, _)
SumSizes(size, S) ==
  IF S = {} THEN 0
  ELSE LET c == CHOOSE x \in S : TRUE IN size[c] + SumSizes(size, S \ {c})

\* get_folder_size(self.media_folder) (lines 855-863).
get_folder_size(m) == m.root + SumSizes(m.size, m.present)

\* The quota test with the bound included.
OverQuota_inclusive(m) == get_folder_size(m) >= max_folder_size_mb

\* Lines 869, 886, 897.
OverQuota(m) == get_folder_size(m) > max_folder_size_mb

\* No pass is running.
NoPass ==
  [pc |-> "idle", folders |-> <<>>, size |-> <<>>, present |-> {},
   root |-> 0, i |-> 0, removed |-> {}, failed |-> {}, startSize |-> 0,
   needless |-> FALSE]

\* Lines 867-882: the size is taken; over the quota, the subfolders are
\* listed and sorted.
cleanup_old_media_start ==
  /\ mm.pc = "idle"
  /\ \E l \in FolderListings, r \in RootSizes :
       \E sz \in [1..Len(l) -> Sizes] :
         LET d == [NoPass EXCEPT !.size = sz, !.present = 1..Len(l),
                                 !.root = r]
             m == [d EXCEPT !.startSize = get_folder_size(d)]
         IN mm' = IF OverQuota(m)
                    THEN [m EXCEPT !.pc = "loop", !.folders = SortByCtime(l),
                                   !.i = 1]
                    ELSE [m EXCEPT !.pc = "done"]
  /\ UNCHANGED <<coreVars, limiterVars, waitVars, job, gsp, dl, run, sm, boot, store, topup>>

\* Lines 884-887: the loop is over, or the total is within the quota.
cleanup_old_media_break ==
  /\ mm.pc = "loop"
  /\ mm.i > Len(mm.folders) \/ ~OverQuota(mm)
  /\ mm' = [mm EXCEPT !.pc = "done"]
  /\ UNCHANGED <<coreVars, limiterVars, waitVars, job, gsp, dl, run, sm, boot, store, topup>>

\* The pass after shutil.rmtree on folder c: gone, or, when rmtree raised,
\* still there with `left` MB in it.
Rmtree(m, c, ok, left) ==
  IF ok
    THEN [m EXCEPT !.present = @ \ {c}, !.removed = @ \cup {c}]
    ELSE [m EXCEPT !.size[c] = left, !.failed = @ \cup {c}]

\* Lines 885-899: one turn of the loop that reaches rmtree, then the test
\* of line 897.
cleanup_old_media_remove ==
  /\ mm.pc = "loop"
  /\ mm.i <= Len(mm.folders)
  /\ OverQuota(mm)
  /\ LET c == mm.folders[mm.i] IN
     \E ok \in BOOLEAN, left \in {x \in Sizes : x <= mm.size[c]} :
       LET m == [Rmtree(mm, c, ok, left) EXCEPT
                   !.needless =
                     @ \/ get_folder_size(mm) <= max_folder_size_mb]
       IN mm' = IF OverQuota(m)
                  THEN [m EXCEPT !.i = @ + 1]
                  ELSE [m EXCEPT !.pc = "done"]
  /\ UNCHANGED <<coreVars, limiterVars, waitVars, job, gsp, dl, run, sm, boot, store, topup>>

\* cleanup_old_media returns; monitor_memory sleeps until the next pass
\* (lines 902-906).
cleanup_old_media_return ==
  /\ mm.pc = "done"
  /\ mm' = NoPass
  /\ UNCHANGED <<coreVars, limiterVars, waitVars, job, gsp, dl, run, sm, boot, store, topup>>

(* ---------------- repost_media, one item step by step ---------------- *)

\* A local file: what a download left (name "download") or what
\* convert_to_jpg wrote (name "jpg") for resource `of`; its thumbnail is
\* f"{path}.jpg" (line 244).
LocalFile(name, of) == [name |-> name, of |-> of, thumb |-> FALSE]
Thumbnail(p) == [p EXCEPT !.thumb = TRUE]

\* The client methods that lines 351-358 replace by rate-limited wrappers.
Wrapped ==
  {"photo_upload", "video_upload", "clip_upload", "igtv_upload",
   "album_upload", "media_like", "photo_download", "video_download"}

\* Lines 351-358 wrap the methods of the module-level client only; a
\* Client() made by _add_connection (line 423) has the library's methods.
Limited(c, method) == c = GlobalClient /\ method \in Wrapped

\* No item is being processed.
NoJob ==
  [pc |-> "idle",
   m |-> [id |-> NoMedia, media_type |-> 0, product_type |-> "", resources |-> 0],
   keep |-> FALSE, client |-> NoClient, i |-> 0, paths |-> <<>>, got |-> {},
   tried |-> {}, disk |-> {}, upload_called |-> FALSE, uploaded |-> <<>>,
   upload_ok |-> FALSE, repost_successful |-> FALSE, unsave |-> "none",
   unsaveFirst |-> FALSE, delError |-> FALSE, calls |-> {}, unlimited |-> {},
   ledger0 |-> {}, ext_valid |-> TRUE, convert |-> "none",
   at_upload |-> FALSE, upload_method |-> "none"]

\* The job after a remote call of `method` on its connection.
RemoteCall(j, method) ==
  [j EXCEPT !.calls = @ \cup {method},
            !.unlimited = IF Limited(j.client, method) THEN @
                          ELSE @ \cup {method}]

\* Lines 529-542 and 566-569: past the entry guard on a connection of the
\* pool; the like (a failure is only logged), the item's folder; a video
\* without MoviePy returns at once.
process_begin ==
  /\ job.pc = "idle"
  /\ \E m \in Medias, keep \in BOOLEAN, c \in {GlobalClient, 1} :
       /\ ~InLedger(m.id)
       /\ LET j == RemoteCall([NoJob EXCEPT !.m = m, !.keep = keep,
                                            !.client = c,
                                            !.ledger0 = saved_posts_history],
                              "media_like")
          IN job' = IF VideoSkipped(m)
                      THEN [j EXCEPT !.pc = "done"]
                      ELSE [j EXCEPT !.pc = "download", !.i = 1]
  /\ UNCHANGED <<coreVars, limiterVars, waitVars, mm, gsp, dl, run, sm, boot, store, topup>>

\* download_media (lines 253-269) names the method by the media type.
DownloadMethod(media_type) ==
  IF media_type = 1 THEN "photo_download" ELSE "video_download"

\* Lines 547-553 and 573: the photo or video is downloaded (download_media
\* raises when its three tries fail); a photo whose name validate_file_format
\* rejects goes to convert_to_jpg.
download_single ==
  /\ job.pc = "download"
  /\ job.m.media_type \in {1, 2}
  /\ LET f == LocalFile("download", 1)
         j == RemoteCall(job, DownloadMethod(job.m.media_type))
     IN \E ok \in BOOLEAN, valid \in BOOLEAN :
          job' = IF ~ok THEN [j EXCEPT !.pc = "finally", !.tried = {1}]
                 ELSE [j EXCEPT !.paths = <<f>>, !.got = {1}, !.tried = {1},
                                !.disk = @ \cup {f},
                                !.ext_valid = job.m.media_type # 1 \/ valid,
                                !.pc = IF job.m.media_type = 1 /\ ~valid
                                         THEN "convert" ELSE "upload"]
  /\ UNCHANGED <<coreVars, limiterVars, waitVars, mm, gsp, dl, run, sm, boot, store, topup>>

\* Lines 550-551 with `path` left as it was.
Converted_kept(paths, jpg_path) == paths

\* Lines 550-551: `path` becomes jpg_path.
Converted(paths, jpg_path) == <<jpg_path>>

\* Lines 549-553: convert_to_jpg writes the .jpg next to the download and
\* `path` becomes its name, or it returns None and the branch raises.
convert_to_jpg ==
  /\ job.pc = "convert"
  /\ LET jpg == LocalFile("jpg", 1) IN
     \E ok \in BOOLEAN :
       job' = IF ok THEN [job EXCEPT !.paths = Converted(@, jpg),
                                     !.disk = @ \cup {jpg},
                                     !.convert = "ok", !.pc = "upload"]
              ELSE [job EXCEPT !.convert = "failed", !.pc = "finally"]
  /\ UNCHANGED <<coreVars, limiterVars, waitVars, mm, gsp, dl, run, sm, boot, store, topup>>

\* The new path put first.
paths_prepend(paths, path) == <<path>> \o paths

\* paths.append(path) (line 602).
paths_append(paths, path) == Append(paths, path)

\* Lines 595-606 and 611-612: one resource of the album is downloaded, a
\* failure is logged; after the last one the album goes to the upload when
\* there is a path.
download_resource ==
  /\ job.pc = "download"
  /\ job.m.media_type = 8
  /\ LET f == LocalFile("download", job.i) IN
     \E ok \in BOOLEAN, resource_type \in {1, 2} :
       LET j == RemoteCall(job, DownloadMethod(resource_type))
           d == IF ok THEN [j EXCEPT !.paths = paths_append(@, f),
                                     !.got = @ \cup {job.i},
                                     !.disk = @ \cup {f}]
                ELSE j
           t == [d EXCEPT !.tried = @ \cup {job.i}]
       IN job' = IF job.i < job.m.resources THEN [t EXCEPT !.i = @ + 1]
                 ELSE IF t.paths # <<>> THEN [t EXCEPT !.pc = "upload"]
                 ELSE [t EXCEPT !.pc = "finally"]
  /\ UNCHANGED <<coreVars, limiterVars, waitVars, mm, gsp, dl, run, sm, boot, store, topup>>

\* Lines 555-558, 574-584, 607-610: the upload the kind calls for, with the
\* paths held; the library may leave thumbnails next to the files it is
\* given; repost_successful is set when no exception came.
upload ==
  /\ job.pc = "upload"
  /\ LET method == UploadCall(job.m, job.got) IN
     IF method = "none"
       THEN job' = [job EXCEPT !.repost_successful = TRUE, !.at_upload = TRUE,
                               !.pc = "finally"]
       ELSE \E ok \in BOOLEAN,
               thumbs \in IF job.m.media_type = 1 THEN {{}}
                          ELSE SUBSET Range(job.paths) :
              job' = [RemoteCall(job, method) EXCEPT
                        !.at_upload = TRUE, !.upload_method = method,
                        !.upload_called = TRUE, !.uploaded = job.paths,
                        !.upload_ok = ok, !.repost_successful = ok,
                        !.disk = @ \cup {Thumbnail(p) : p \in thumbs},
                        !.pc = "finally"]
  /\ UNCHANGED <<coreVars, limiterVars, waitVars, mm, gsp, dl, run, sm, boot, store, topup>>

\* Lines 562-563, 588-589, 616-617 with unsave_media (lines 271-279): after
\* a successful repost client.media_unsave is called; it fails or not, and
\* unsave_media returns either way.
unsave_media ==
  /\ job.pc = "finally"
  /\ IF job.repost_successful
       THEN \E ok \in BOOLEAN :
              job' = [RemoteCall(job, "media_unsave") EXCEPT
                        !.unsave = IF ok THEN "ok" ELSE "failed",
                        !.unsaveFirst = ~InLedger(job.m.id),
                        !.pc = "cleanup"]
       ELSE job' = [job EXCEPT !.pc = "cleanup"]
  /\ UNCHANGED <<coreVars, limiterVars, waitVars, mm, gsp, dl, run, sm, boot, store, topup>>

\* What handle_media_file (lines 232-251) removes for the paths held: each
\* path that exists and, with it, its thumbnail if that exists; nothing when
\* media is kept.
RemovalTargets(j) ==
  IF j.keep THEN {}
  ELSE LET there == {p \in Range(j.paths) : p \in j.disk}
       IN there \cup ({Thumbnail(p) : p \in there} \cap j.disk)

\* Lines 564, 590, 618-619: handle_media_file for every path held; a
\* removal that keeps failing is logged.
handle_media_file ==
  /\ job.pc = "cleanup"
  /\ \E fails \in SUBSET RemovalTargets(job) :
       job' = [job EXCEPT !.disk = @ \ (RemovalTargets(job) \ fails),
                          !.delError = fails # {},
                          !.pc = "commit"]
  /\ UNCHANGED <<coreVars, limiterVars, waitVars, mm, gsp, dl, run, sm, boot, store, topup>>

\* Line 621 with also a successful unsave required.
Commits_unsaved(j) == j.repost_successful /\ j.unsave = "ok"

\* Line 621.
Commits(j) == j.repost_successful

\* Lines 621-626: the id enters the ledger and save_history writes the file
\* (or fails before or after emptying it, lines 124-129); otherwise the
\* warning.
commit ==
  /\ job.pc = "commit"
  /\ job' = [job EXCEPT !.pc = "done"]
  /\ IF Commits(job)
       THEN /\ saved_posts_history' = saved_posts_history \cup {job.m.id}
            /\ file' \in {Written(Truncated, saved_posts_history'), Truncated,
                          file}
            /\ committed' = committed \cup load_history(file')
       ELSE UNCHANGED <<saved_posts_history, file, committed>>
  /\ UNCHANGED <<buf, MOVIEPY_AVAILABLE, poolVars, queue, pc, client, taskVars,
                 timeVars, pubLife, limiterVars, waitVars, mm, gsp, dl, run, sm, boot, store, topup>>

\* Lines 628-632: repost_media returns.
process_return ==
  /\ job.pc = "done"
  /\ job' = NoJob
  /\ UNCHANGED <<coreVars, limiterVars, waitVars, mm, gsp, dl, run, sm, boot, store, topup>>

(* ---------------- get_saved_posts ---------------- *)

\* The list reversed.
methods_reversed ==
  <<"Direct saved posts", "First collection", "Saved collection",
    "All Posts collection">>

\* The fetch methods in the order of the list at lines 211-216.
methods ==
  <<"All Posts collection", "Saved collection", "First collection",
    "Direct saved posts">>

\* What a fetch method may do: raise, return None, return an empty list,
\* or return a listing.
Fetched ==
  {[kind |-> k, medias |-> <<>>] : k \in {"raises", "None", "list"}}
  \cup {[kind |-> "list", medias |-> <<id>>] : id \in Ids}

\* Whether `if saved_posts:` (line 222) holds for what a method returned.
Truthy(r) == r.kind = "list" /\ r.medias # <<>>

\* get_saved_posts is not running.
NoFetch == [pc |-> "idle", k |-> 0, tried |-> <<>>, outcome |-> <<>>,
            result |-> <<>>]

\* Line 218: the loop starts.
get_saved_posts_call ==
  /\ gsp.pc = "idle"
  /\ gsp' = [NoFetch EXCEPT !.pc = "loop", !.k = 1]
  /\ UNCHANGED <<coreVars, limiterVars, waitVars, mm, job, dl, run, sm, boot, store, topup>>

\* Lines 218-226: the next method is called; a non-empty result is
\* returned, anything else goes on to the next method.
get_saved_posts_try ==
  /\ gsp.pc = "loop"
  /\ gsp.k <= Len(methods)
  /\ \E r \in Fetched :
       LET g == [gsp EXCEPT !.tried = Append(@, methods[gsp.k]),
                            !.outcome = Append(@, r)]
       IN gsp' = IF Truthy(r)
                   THEN [g EXCEPT !.pc = "done", !.result = r.medias]
                   ELSE [g EXCEPT !.k = @ + 1]
  /\ UNCHANGED <<coreVars, limiterVars, waitVars, mm, job, dl, run, sm, boot, store, topup>>

\* Lines 228-229: every method was tried; the empty list is returned.
get_saved_posts_exhausted ==
  /\ gsp.pc = "loop"
  /\ gsp.k > Len(methods)
  /\ gsp' = [gsp EXCEPT !.pc = "done", !.result = <<>>]
  /\ UNCHANGED <<coreVars, limiterVars, waitVars, mm, job, dl, run, sm, boot, store, topup>>

\* The caller has the result (line 727).
get_saved_posts_return ==
  /\ gsp.pc = "done"
  /\ gsp' = NoFetch
  /\ UNCHANGED <<coreVars, limiterVars, waitVars, mm, job, dl, run, sm, boot, store, topup>>

(* ---------------- download_media ---------------- *)

\* download_media's max_retries default (line 253).
download_retries == 3

\* download_media is not running.
NoDownload ==
  [pc |-> "idle", client |-> NoClient, media_type |-> 0, retry |-> 0,
   attempt |-> 0, fetches |-> 0, slept |-> <<>>, gaps |-> <<>>]

\* download_media is called for a photo or a video on a connection of the
\* pool (lines 547, 573).
download_media_call ==
  /\ dl.pc = "idle"
  /\ \E c \in {GlobalClient, 1}, t \in {1, 2} :
       dl' = [NoDownload EXCEPT !.pc = "fetch", !.client = c, !.media_type = t]
  /\ UNCHANGED <<coreVars, limiterVars, waitVars, mm, job, gsp, run, sm, boot, store, topup>>

\* The remote fetch is sent: one more fetch, after the sleeps since the
\* last one.
Fetch(d) ==
  [d EXCEPT !.fetches = @ + 1,
            !.gaps = IF d.fetches = 0 THEN @ ELSE Append(@, d.slept),
            !.slept = <<>>]

\* Lines 263-268: the call raised into download_media: sleep(5) and the
\* next try, or the exception goes on to repost_media.
download_media_except(d) ==
  IF d.retry < download_retries - 1
    THEN [d EXCEPT !.retry = @ + 1, !.attempt = 0, !.slept = Append(@, 5)]
    ELSE [d EXCEPT !.pc = "raised"]

\* Lines 257-260 on a client whose download methods are the library's own:
\* one fetch, which returns the path or raises.
fetch_direct ==
  /\ dl.pc = "fetch"
  /\ ~Limited(dl.client, DownloadMethod(dl.media_type))
  /\ \E ok \in BOOLEAN :
       dl' = IF ok THEN [Fetch(dl) EXCEPT !.pc = "returned"]
             ELSE download_media_except(Fetch(dl))
  /\ UNCHANGED <<coreVars, limiterVars, waitVars, mm, job, gsp, run, sm, boot, store, topup>>

\* Lines 257-260 on the global client, whose download methods are
\* with_rate_limit wrappers (lines 333-337, 357-358): wait() first.
fetch_wait ==
  /\ dl.pc = "fetch"
  /\ Limited(dl.client, DownloadMethod(dl.media_type))
  /\ limiter' = [limiter EXCEPT !["media"] = wait_done(@, now)]
  /\ dl' = [dl EXCEPT !.pc = "call"]
  /\ UNCHANGED <<coreVars, failures, waitVars, mm, job, gsp, run, sm, boot, store, topup>>

\* Lines 338-347: the wrapper sends one fetch; then success() and the
\* path, or failure() and either sleep(current_delay) before the wrapper's
\* next attempt or the exception raised into download_media.
fetch_limited ==
  /\ dl.pc = "call"
  /\ \E ok \in BOOLEAN :
       IF ok
         THEN /\ RateLimiter_success("media")
              /\ dl' = [Fetch(dl) EXCEPT !.pc = "returned"]
         ELSE /\ RateLimiter_failure("media")
              /\ dl' = IF dl.attempt < max_retries - 1
                         THEN [Fetch(dl) EXCEPT
                                 !.pc = "fetch", !.attempt = @ + 1,
                                 !.slept = <<limiter'["media"].current_delay>>]
                         ELSE download_media_except(
                                [Fetch(dl) EXCEPT !.pc = "fetch"])
  /\ UNCHANGED <<coreVars, waitVars, mm, job, gsp, run, sm, boot, store, topup>>

\* download_media has returned the path or raised (lines 262, 268).
download_media_return ==
  /\ dl.pc \in {"returned", "raised"}
  /\ dl' = NoDownload
  /\ UNCHANGED <<coreVars, limiterVars, waitVars, mm, job, gsp, run, sm, boot, store, topup>>

(* ---------------- check_and_repost, before the executor ---------------- *)

\* Line 684 with one more turn.
max_api_retries_more == 2 + 2

\* Line 684.
max_api_retries == 3

\* Line 703.
max_saved_retries == 3

\* check_and_repost is not running.
NoRun ==
  [pc |-> "idle", login |-> "none", retry |-> 0, probes |-> 0,
   connected |-> FALSE, via |-> "", slept |-> <<>>, gaps |-> <<>>, saved_retry |-> 0,
   fetches |-> 0, submitted |-> 0]

\* Lines 675-681: with no client.user_id, login() is called; when it fails
\* the run returns.
check_and_repost_enter ==
  /\ run.pc = "idle"
  /\ \E user_id \in BOOLEAN, login_ok \in BOOLEAN :
       run' = IF user_id THEN [NoRun EXCEPT !.pc = "probe"]
              ELSE IF login_ok THEN [NoRun EXCEPT !.pc = "probe", !.login = "ok"]
              ELSE [NoRun EXCEPT !.pc = "done", !.login = "failed"]
  /\ UNCHANGED <<coreVars, limiterVars, waitVars, mm, job, gsp, dl, sm, boot, store, topup>>

\* check_api_connectivity (lines 635-670): user_info_v1, then
\* get_timeline_feed, then get_reels_tray; True at the first that answers.
check_api_connectivity(user_info, timeline_feed, reels_tray) ==
  user_info \/ timeline_feed \/ reels_tray

\* The call that answered.
AnsweredBy(user_info, timeline_feed, reels_tray) ==
  IF user_info THEN "user_info_v1"
  ELSE IF timeline_feed THEN "get_timeline_feed"
  ELSE "get_reels_tray"

\* Lines 685-697: one turn of the retry loop: the probe; on failure
\* sleep(10) and the next turn, or, at the last turn, the run returns.
check_and_repost_probe ==
  /\ run.pc = "probe"
  /\ \E e1 \in BOOLEAN, e2 \in BOOLEAN, e3 \in BOOLEAN :
       LET r == [run EXCEPT !.probes = @ + 1,
                            !.gaps = IF run.probes = 0 THEN @
                                     ELSE Append(@, run.slept),
                            !.slept = <<>>]
       IN run' = IF check_api_connectivity(e1, e2, e3)
                   THEN [r EXCEPT !.connected = TRUE, !.pc = "fetch",
                                  !.via = AnsweredBy(e1, e2, e3)]
                 ELSE IF run.retry < max_api_retries - 1
                   THEN [r EXCEPT !.retry = @ + 1, !.slept = <<10>>]
                 ELSE [r EXCEPT !.pc = "done"]
  /\ UNCHANGED <<coreVars, limiterVars, waitVars, mm, job, gsp, dl, sm, boot, store, topup>>

\* Lines 702-741: get_saved_posts is called (again after sleep(5) while it
\* gives nothing, three times at most); a listing is filtered against the
\* ledger and what is left is submitted to the executor.
check_and_repost_fetch ==
  /\ run.pc = "fetch"
  /\ \E n \in 0..MaxListing, fresh \in 0..MaxListing :
       /\ fresh <= n
       /\ LET r == [run EXCEPT !.fetches = @ + 1] IN
          run' = IF n > 0 THEN [r EXCEPT !.submitted = fresh, !.pc = "done"]
                 ELSE IF run.saved_retry < max_saved_retries - 1
                   THEN [r EXCEPT !.saved_retry = @ + 1]
                 ELSE [r EXCEPT !.pc = "done"]
  /\ UNCHANGED <<coreVars, limiterVars, waitVars, mm, job, gsp, dl, sm, boot, store, topup>>

\* check_and_repost returns (lines 681, 697, 728, 734, 753).
check_and_repost_return ==
  /\ run.pc = "done"
  /\ run' = NoRun
  /\ UNCHANGED <<coreVars, limiterVars, waitVars, mm, job, gsp, dl, sm, boot, store, topup>>

(* ---------------- SessionManager ---------------- *)

\* SessionManager.__init__ default (line 362), in seconds.
refresh_interval == 3600

\* The clock moves in steps of ClockStep seconds, MaxSteps of them.
ClockStep == refresh_interval \div 2
MaxSteps == 4

\* SessionManager.__init__ (lines 362-366), some time after the epoch; no
\* thread is in refresh_if_needed.  `last` tells what the last call did.
NoRefresh ==
  [last_refresh |-> 0, lock |-> 0, time |-> 2 * refresh_interval,
   at |-> [w \in Workers |-> "idle"], now |-> [w \in Workers |-> 0],
   last |-> [probed |-> FALSE, ok |-> FALSE, changed |-> FALSE]]

\* Line 372 with the test left out.
NeedsRefresh_always(now_, last_refresh) == TRUE

\* Line 372.
NeedsRefresh(now_, last_refresh) == now_ - last_refresh > refresh_interval

\* Lines 370-372: a thread calling a wrapped upload method (lines 393-395)
\* takes the lock and reads the time; when no refresh is due it leaves at
\* once.
refresh_if_needed_enter(w) ==
  /\ sm.at[w] = "idle"
  /\ sm.lock = 0
  /\ sm' = IF NeedsRefresh(sm.time, sm.last_refresh)
             THEN [sm EXCEPT !.lock = w, !.now[w] = sm.time, !.at[w] = "probe"]
             ELSE [sm EXCEPT !.last = [probed |-> FALSE, ok |-> FALSE,
                                       changed |-> FALSE]]
  /\ UNCHANGED <<coreVars, limiterVars, waitVars, mm, job, gsp, dl, run, boot, store, topup>>

\* Lines 373-380: get_timeline_feed answers and last_refresh becomes `now`,
\* or it raises.
refresh_if_needed_probe(w) ==
  /\ sm.at[w] = "probe"
  /\ \E ok \in BOOLEAN :
       sm' = IF ok
               THEN [sm EXCEPT !.last_refresh = sm.now[w], !.lock = 0,
                               !.at[w] = "idle",
                               !.last = [probed |-> TRUE, ok |-> TRUE,
                                         changed |-> sm.now[w] # sm.last_refresh]]
               ELSE [sm EXCEPT !.at[w] = "relogin"]
  /\ UNCHANGED <<coreVars, limiterVars, waitVars, mm, job, gsp, dl, run, boot, store, topup>>

\* Lines 381-389: login() returns True and last_refresh becomes `now`, or
\* it returns False or raises and last_refresh stays.
refresh_if_needed_relogin(w) ==
  /\ sm.at[w] = "relogin"
  /\ \E ok \in BOOLEAN :
       sm' = IF ok
               THEN [sm EXCEPT !.last_refresh = sm.now[w], !.lock = 0,
                               !.at[w] = "idle",
                               !.last = [probed |-> TRUE, ok |-> TRUE,
                                         changed |-> sm.now[w] # sm.last_refresh]]
               ELSE [sm EXCEPT !.lock = 0, !.at[w] = "idle",
                               !.last = [probed |-> TRUE, ok |-> FALSE,
                                         changed |-> FALSE]]
  /\ UNCHANGED <<coreVars, limiterVars, waitVars, mm, job, gsp, dl, run, boot, store, topup>>

\* Time passes.
session_clock ==
  /\ sm.time < (2 * refresh_interval) + (MaxSteps * ClockStep)
  /\ sm' = [sm EXCEPT !.time = @ + ClockStep]
  /\ UNCHANGED <<coreVars, limiterVars, waitVars, mm, job, gsp, dl, run, boot, store, topup>>

(* ---------------- the module's top level ---------------- *)

\* Most check_and_repost runs and janitor passes that are counted.
MaxCycles == 3

\* Line 823.
error_threshold == 3

\* The interpreter has executed the module down to line 844: every function
\* up to main is defined, the class MemoryManager (line 848) is not, and no
\* memory_thread exists.
NoBoot ==
  [pc |-> "guard", script |-> FALSE, janitor |-> "absent", passes |-> 0,
   cycles |-> 0, consecutive_errors |-> 0, slept |-> 0]

\* Lines 845-846: run as a script the module calls main() here; imported it
\* goes on to line 848.
main_guard ==
  /\ boot.pc = "guard"
  /\ \E script \in BOOLEAN :
       boot' = [boot EXCEPT !.script = script,
                            !.pc = IF script THEN "main" ELSE "defs"]
  /\ UNCHANGED <<coreVars, limiterVars, waitVars, mm, job, gsp, dl, run, sm, store, topup>>

\* Lines 848-913: the class is defined, memory_manager is created and
\* memory_thread is started.  After a main() called at line 846 has
\* returned, the module ends here and the interpreter exits, which ends the
\* daemon thread; an importing program may call main() afterwards.
memory_thread_start ==
  /\ boot.pc = "defs"
  /\ boot' = [boot EXCEPT !.janitor = "cleaning", !.passes = 1,
                          !.pc = IF boot.script THEN "exit" ELSE "imported"]
  /\ UNCHANGED <<coreVars, limiterVars, waitVars, mm, job, gsp, dl, run, sm, store, topup>>

\* The importing program calls main().
main_called ==
  /\ boot.pc = "imported"
  /\ boot' = [boot EXCEPT !.pc = "main"]
  /\ UNCHANGED <<coreVars, limiterVars, waitVars, mm, job, gsp, dl, run, sm, store, topup>>

\* main, lines 760-799: without credentials, dependencies or a login it
\* returns; else it schedules check_and_repost, runs it once and enters the
\* scheduler loop.
main_start ==
  /\ boot.pc = "main"
  /\ \E ready \in BOOLEAN :
       boot' = IF ready
                 THEN [boot EXCEPT !.pc = "loop", !.cycles = 1]
                 ELSE [boot EXCEPT !.pc = "returned"]
  /\ UNCHANGED <<coreVars, limiterVars, waitVars, mm, job, gsp, dl, run, sm, store, topup>>

\* Lines 811-837: one turn of `while True`: run_pending(), which runs
\* check_and_repost when it is due, and sleep(1); when run_pending raised,
\* consecutive_errors grows and the turn sleeps 30 s more, or 300 s more
\* after more than error_threshold errors in a row (counted up to one past
\* the threshold).
main_loop ==
  /\ boot.pc = "loop"
  /\ \E due \in BOOLEAN, raised \in BOOLEAN :
       LET b == IF due /\ boot.cycles < MaxCycles
                  THEN [boot EXCEPT !.cycles = @ + 1] ELSE boot
           n == IF boot.consecutive_errors > error_threshold
                  THEN boot.consecutive_errors
                  ELSE boot.consecutive_errors + 1
       IN boot' = IF due /\ raised
                    THEN [b EXCEPT !.consecutive_errors = n,
                                   !.slept = IF n > error_threshold
                                               THEN 301 ELSE 31]
                    ELSE [b EXCEPT !.consecutive_errors = 0, !.slept = 1]
  /\ UNCHANGED <<coreVars, limiterVars, waitVars, mm, job, gsp, dl, run, sm, store, topup>>

\* Lines 838-840: KeyboardInterrupt ends the loop and main returns.
main_interrupt ==
  /\ boot.pc = "loop"
  /\ boot' = [boot EXCEPT !.pc = "returned"]
  /\ UNCHANGED <<coreVars, limiterVars, waitVars, mm, job, gsp, dl, run, sm, store, topup>>

\* main has returned: to line 848 of the script or to the importing
\* program, which goes on without the loop.
main_return ==
  /\ boot.pc = "returned"
  /\ boot' = [boot EXCEPT !.pc = IF boot.script THEN "defs" ELSE "left"]
  /\ UNCHANGED <<coreVars, limiterVars, waitVars, mm, job, gsp, dl, run, sm, store, topup>>

\* monitor_memory (lines 902-906): cleanup_old_media returns and the thread
\* sleeps an hour, then calls it again.  A daemon thread runs only while the
\* process does.
monitor_memory ==
  /\ boot.janitor # "absent"
  /\ boot.pc # "exit"
  /\ boot' = IF boot.janitor = "cleaning"
               THEN [boot EXCEPT !.janitor = "sleeping"]
               ELSE [boot EXCEPT !.janitor = "cleaning",
                                 !.passes = IF @ < MaxCycles THEN @ + 1 ELSE @]
  /\ UNCHANGED <<coreVars, limiterVars, waitVars, mm, job, gsp, dl, run, sm, store, topup>>

(* ---------------- the media folder under workers and the janitor ---------------- *)

\* The media folder is empty, no pass of cleanup_old_media is running and
\* no worker is at an item.  Subfolders are named by the rank of their
\* creation time; `made` counts the subfolders created so far.
NoStore ==
  [pc |-> "idle", folders |-> <<>>, i |-> 0,
   size |-> [c \in 1..MaxFolders |-> 0], present |-> {}, root |-> 0,
   removed |-> {}, failed |-> {}, made |-> 0,
   wk |-> [w \in Workers |-> [pc |-> "idle", folder |-> 0, mb |-> 0]]]

\* The subfolders some worker is at.
InWork(s) == {s.wk[w].folder : w \in Workers} \ {0}

\* Lines 539-540: os.makedirs(media_specific_folder, exist_ok=True): the
\* item's subfolder is there already (the item was listed before) or is
\* created now, the newest of all.
worker_makedirs(w) ==
  /\ store.wk[w].pc = "idle"
  /\ \/ \E c \in store.present \ InWork(store) :
          store' = [store EXCEPT !.wk[w] = [pc |-> "made", folder |-> c,
                                            mb |-> 0]]
     \/ /\ store.made < MaxFolders
        /\ store' = [store EXCEPT
                       !.made = @ + 1,
                       !.present = @ \cup {store.made + 1},
                       !.wk[w] = [pc |-> "made", folder |-> store.made + 1,
                                  mb |-> 0]]
  /\ UNCHANGED <<coreVars, limiterVars, waitVars, mm, job, gsp, dl, run, sm, boot, topup>>

\* Lines 547, 573: the download writes a file of mb MB into the subfolder,
\* or raises (always, when the subfolder is gone).
worker_download(w) ==
  /\ store.wk[w].pc = "made"
  /\ LET c == store.wk[w].folder IN
     \E ok \in BOOLEAN, mb \in Sizes \ {0} :
       store' = IF ok /\ c \in store.present
                     /\ store.size[c] + mb <= MaxSize * Granule
                  THEN [store EXCEPT !.size[c] = @ + mb,
                                     !.wk[w].pc = "downloaded",
                                     !.wk[w].mb = mb]
                  ELSE [store EXCEPT !.wk[w].pc = "cleanup"]
  /\ UNCHANGED <<coreVars, limiterVars, waitVars, mm, job, gsp, dl, run, sm, boot, topup>>

\* Lines 550-558, 576-584: the upload reads the downloaded file.
worker_upload(w) ==
  /\ store.wk[w].pc = "downloaded"
  /\ store' = [store EXCEPT !.wk[w].pc = "cleanup"]
  /\ UNCHANGED <<coreVars, limiterVars, waitVars, mm, job, gsp, dl, run, sm, boot, topup>>

\* Lines 560-564 with handle_media_file (lines 232-251): the file is
\* removed when it is still there; the subfolder stays.
worker_cleanup(w) ==
  /\ store.wk[w].pc = "cleanup"
  /\ LET c == store.wk[w].folder IN
     store' = [store EXCEPT
                 !.size[c] = IF c \in store.present THEN @ - store.wk[w].mb
                             ELSE @,
                 !.wk[w] = [pc |-> "idle", folder |-> 0, mb |-> 0]]
  /\ UNCHANGED <<coreVars, limiterVars, waitVars, mm, job, gsp, dl, run, sm, boot, topup>>

\* Lines 867-882, on the media folder as the workers have left it.
janitor_start ==
  /\ store.pc = "idle"
  /\ IF OverQuota(store)
       THEN \E l \in [1..Cardinality(store.present) -> store.present] :
              /\ \A i, j \in DOMAIN l : l[i] = l[j] => i = j
              /\ store' = [store EXCEPT !.pc = "loop",
                                        !.folders = SortByCtime(l), !.i = 1]
       ELSE store' = [store EXCEPT !.pc = "done"]
  /\ UNCHANGED <<coreVars, limiterVars, waitVars, mm, job, gsp, dl, run, sm, boot, topup>>

\* Lines 884-887.
janitor_break ==
  /\ store.pc = "loop"
  /\ store.i > Len(store.folders) \/ ~OverQuota(store)
  /\ store' = [store EXCEPT !.pc = "done"]
  /\ UNCHANGED <<coreVars, limiterVars, waitVars, mm, job, gsp, dl, run, sm, boot, topup>>

\* Lines 885-899: shutil.rmtree on the next listed subfolder, with all
\* that is in it, or rmtree raises and nothing is removed.
janitor_remove ==
  /\ store.pc = "loop"
  /\ store.i <= Len(store.folders)
  /\ OverQuota(store)
  /\ LET c == store.folders[store.i] IN
     \E ok \in BOOLEAN :
       LET s == Rmtree(store, c, ok, store.size[c])
       IN store' = IF OverQuota(s)
                     THEN [s EXCEPT !.i = @ + 1]
                     ELSE [s EXCEPT !.pc = "done"]
  /\ UNCHANGED <<coreVars, limiterVars, waitVars, mm, job, gsp, dl, run, sm, boot, topup>>

\* cleanup_old_media returns (lines 902-906).
janitor_return ==
  /\ store.pc = "done"
  /\ store' = [store EXCEPT !.pc = "idle", !.folders = <<>>, !.i = 0,
                            !.removed = {}, !.failed = {}]
  /\ UNCHANGED <<coreVars, limiterVars, waitVars, mm, job, gsp, dl, run, sm, boot, topup>>

(* ---------------- the pool lock and _add_connection ---------------- *)

\* ConnectionPoolManager.__init__ (lines 410-418) with authentication at
\* hand: one connection, nothing checked out, the lock free.  n is
\* len(_pool); counted[w] tells that w's client is a key of _in_use; tries
\* counts the _add_connection calls of the running top-up loop (up to
\* MaxCycles).
NoTopUp ==
  [auth |-> TRUE, n |-> 1, lock |-> 0, cpc |-> "idle", tries |-> 0,
   at |-> [w \in Workers |-> "idle"],
   elapsed |-> [w \in Workers |-> 0],
   timeout |-> [w \in Workers |-> 0],
   counted |-> [w \in Workers |-> FALSE]]

\* The keys of _in_use.
Counted(t) == {w \in Workers : t.counted[w]}

\* The cookie session expires and login() no longer succeeds without an
\* interactive step: from now on _add_connection returns None (lines
\* 444-450).
auth_lost ==
  /\ topup.auth
  /\ topup' = [topup EXCEPT !.auth = FALSE]
  /\ UNCHANGED <<coreVars, limiterVars, waitVars, mm, job, gsp, dl, run, sm, boot, store>>

\* Line 454: get_connection is called with timeout t.
pool_get_connection(w) ==
  /\ topup.at[w] = "idle"
  /\ \E t \in 1..MaxTimeout :
       topup' = [topup EXCEPT !.at[w] = "test", !.elapsed[w] = 0,
                              !.timeout[w] = t]
  /\ UNCHANGED <<coreVars, limiterVars, waitVars, mm, job, gsp, dl, run, sm, boot, store>>

\* Lines 455, 473: the loop test: on to `with self._lock`, or TimeoutError.
pool_test(w) ==
  /\ topup.at[w] = "test"
  /\ topup' = [topup EXCEPT
                 !.at[w] = IF topup.elapsed[w] < topup.timeout[w]
                             THEN "lock" ELSE "timed_out"]
  /\ UNCHANGED <<coreVars, limiterVars, waitVars, mm, job, gsp, dl, run, sm, boot, store>>

\* Lines 456-468: the lock is taken once it is free; a free connection is
\* returned, or one that _add_connection makes, or the lock is left with
\* nothing.
pool_locked(w) ==
  /\ topup.at[w] = "lock"
  /\ topup.lock = 0
  /\ topup' =
       IF Cardinality(Counted(topup)) < topup.n
         THEN [topup EXCEPT !.at[w] = "got", !.counted[w] = TRUE]
       ELSE IF topup.n < max_connections /\ topup.auth
         THEN [topup EXCEPT !.n = @ + 1, !.at[w] = "got",
                            !.counted[w] = TRUE]
       ELSE [topup EXCEPT !.at[w] = "sleep"]
  /\ UNCHANGED <<coreVars, limiterVars, waitVars, mm, job, gsp, dl, run, sm, boot, store>>

\* Line 471: sleep(1) is over.
pool_slept(w) ==
  /\ topup.at[w] = "sleep"
  /\ topup' = [topup EXCEPT !.at[w] = "test", !.elapsed[w] = @ + 1]
  /\ UNCHANGED <<coreVars, limiterVars, waitVars, mm, job, gsp, dl, run, sm, boot, store>>

\* Lines 475-479 from repost_media's finally: under the lock, the key
\* leaves _in_use when it is still there.
pool_release(w) ==
  /\ topup.at[w] = "got"
  /\ topup.lock = 0
  /\ topup' = [topup EXCEPT !.at[w] = "idle", !.counted[w] = FALSE]
  /\ UNCHANGED <<coreVars, limiterVars, waitVars, mm, job, gsp, dl, run, sm, boot, store>>

\* Lines 628-629: the TimeoutError is caught and repost_media returns.
pool_timed_out(w) ==
  /\ topup.at[w] = "timed_out"
  /\ topup' = [topup EXCEPT !.at[w] = "idle"]
  /\ UNCHANGED <<coreVars, limiterVars, waitVars, mm, job, gsp, dl, run, sm, boot, store>>

\* Lines 483-500: under the lock, the clients held for more than max_age
\* leave _in_use and the pool; below min_connections the top-up loop is
\* entered with the lock held.
stale_evict ==
  /\ topup.cpc = "idle"
  /\ topup.lock = 0
  /\ \E stale_clients \in SUBSET Counted(topup) :
       LET t == [topup EXCEPT
                   !.n = @ - Cardinality(stale_clients),
                   !.counted = [w \in Workers |->
                                  @[w] /\ w \notin stale_clients]]
       IN topup' = IF t.n < min_connections
                     THEN [t EXCEPT !.lock = Cleaner, !.cpc = "add",
                                    !.tries = 0]
                     ELSE t
  /\ UNCHANGED <<coreVars, limiterVars, waitVars, mm, job, gsp, dl, run, sm, boot, store>>

\* Lines 500-501: one turn of `while len(self._pool) < self.min_connections`:
\* _add_connection appends a client or returns None; the loop test
\* follows, and the lock is left only when the loop ends.
stale_add ==
  /\ topup.cpc = "add"
  /\ LET t == [topup EXCEPT
                 !.n = IF topup.auth THEN @ + 1 ELSE @,
                 !.tries = IF @ < MaxCycles THEN @ + 1 ELSE @]
     IN topup' = IF t.n < min_connections
                   THEN t
                   ELSE [t EXCEPT !.lock = 0, !.cpc = "idle"]
  /\ UNCHANGED <<coreVars, limiterVars, waitVars, mm, job, gsp, dl, run, sm, boot, store>>

(* ---------------- the process ---------------- *)

\* ConnectionPoolManager.__init__ (lines 410-418): one _add_connection, which
\* leaves a new client, the global client or nothing.
InitPools == {<<>>, <<GlobalClient>>, <<1>>}

\* The state of a process that main() has started: module initialisation,
\* check_dependencies, load_history (line 792).
Init ==
  /\ file = NoFile
  /\ saved_posts_history = load_history(NoFile)
  /\ buf = [w \in Workers |-> {}]
  /\ MOVIEPY_AVAILABLE \in BOOLEAN
  /\ pool \in InitPools
  /\ in_use = {}
  /\ stale = {}
  /\ lock = 0
  /\ cpc = "idle"
  /\ queue = <<>>
  /\ pc = [w \in Workers |-> "idle"]
  /\ media = [w \in Workers |-> NoMedia]
  /\ client = [w \in Workers |-> NoClient]
  /\ repost_successful = [w \in Workers |-> FALSE]
  /\ elapsed = [w \in Workers |-> 0]
  /\ timeout = [w \in Workers |-> 0]
  /\ called = [w \in Workers |-> FALSE]
  /\ startedInLedger = [w \in Workers |-> FALSE]
  /\ fullSince = [w \in Workers |-> FALSE]
  /\ pubLife = [i \in Ids |-> 0]
  /\ committed = {}
  /\ evicted = FALSE
  /\ cleaned = FALSE
  /\ status = [w \in Workers |-> ""]
  /\ saveFailed = [w \in Workers |-> FALSE]
  /\ limiter = [c \in Classes |-> RateLimiter(c)]
  /\ failures = [c \in Classes |-> 0]
  /\ now = StartTime
  /\ rl_pc = [w \in Workers |-> "idle"]
  /\ rl_class = [w \in Workers |-> ""]
  /\ rl_now = [w \in Workers |-> 0]
  /\ rl_wake = [w \in Workers |-> 0]
  /\ rl_attempt = [w \in Workers |-> 0]
  /\ lastProceed = [c \in Classes |-> 0]
  /\ early = [c \in Classes |-> FALSE]
  /\ mm = NoPass
  /\ job = NoJob
  /\ gsp = NoFetch
  /\ dl = NoDownload
  /\ run = NoRun
  /\ sm = NoRefresh
  /\ boot = NoBoot
  /\ store = NoStore
  /\ topup = NoTopUp

\* The process dies at any point and is started again: the file stays as it
\* is, everything in memory is rebuilt as in Init, the ledger by
\* load_history.
Restart ==
  /\ saved_posts_history' = load_history(file)
  /\ buf' = [w \in Workers |-> {}]
  /\ MOVIEPY_AVAILABLE' \in BOOLEAN
  /\ pool' \in InitPools
  /\ in_use' = {}
  /\ stale' = {}
  /\ lock' = 0
  /\ cpc' = "idle"
  /\ queue' = <<>>
  /\ pc' = [w \in Workers |-> "idle"]
  /\ media' = [w \in Workers |-> NoMedia]
  /\ client' = [w \in Workers |-> NoClient]
  /\ repost_successful' = [w \in Workers |-> FALSE]
  /\ elapsed' = [w \in Workers |-> 0]
  /\ timeout' = [w \in Workers |-> 0]
  /\ called' = [w \in Workers |-> FALSE]
  /\ startedInLedger' = [w \in Workers |-> FALSE]
  /\ fullSince' = [w \in Workers |-> FALSE]
  /\ pubLife' = [i \in Ids |-> 0]
  /\ evicted' = FALSE
  /\ cleaned' = FALSE
  /\ status' = [w \in Workers |-> ""]
  /\ saveFailed' = [w \in Workers |-> FALSE]
  /\ UNCHANGED <<file, committed, auxVars>>

\* One step of an executor thread running repost_media, when a connection
\* is there or can be made at once.
Task(w) ==
  \/ repost_media_start(w)
  \/ get_connection_enter(w)
  \/ get_connection_reuse(w)
  \/ get_connection_grow(w)
  \/ get_connection_added(w, "cookies")
  \/ repost_media_check(w)
  \/ repost_media_video_skip(w)
  \/ repost_media_process(w)
  \/ save_history_open(w)
  \/ save_history_close(w)
  \/ save_history_failed(w)
  \/ release_connection(w)

\* One step of an executor thread running repost_media.
Worker(w) ==
  \/ Task(w)
  \/ get_connection_add_failed(w)
  \/ get_connection_wake(w)
  \/ get_connection_timeout(w)
  \/ repost_media_return(w)

\* One process lifetime.
Next ==
  \/ \E saved_medias \in Listings : check_and_repost(saved_medias)
  \/ \E w \in Workers : Worker(w)
  \/ Tick

Spec == Init /\ [][Next]_vars

\* One process lifetime under listings that name no id twice.
BatchNext ==
  \/ \E saved_medias \in UniqueListings : check_and_repost(saved_medias)
  \/ \E w \in Workers : Worker(w)
  \/ Tick

\* Such a lifetime in which every executor thread that can take a step takes
\* one (the executor runs its threads until their task returns) and time
\* passes.
LiveSpec ==
  /\ Init
  /\ [][BatchNext]_vars
  /\ \A w \in Workers : WF_vars(Worker(w))
  /\ WF_vars(Tick)

\* Lifetimes separated by crashes, under listings that name no id twice.
CrashNext ==
  \/ \E saved_medias \in UniqueListings : check_and_repost(saved_medias)
  \/ \E w \in Workers : Task(w)
  \/ Restart

CrashSpec == Init /\ [][CrashNext]_vars

\* One step of a thread that uses the pool.
Caller(w) ==
  \/ acquire(w)
  \/ get_connection_enter(w)
  \/ get_connection_timeout(w)
  \/ get_connection_reuse(w)
  \/ get_connection_grow(w)
  \/ get_connection_wait(w)
  \/ \E how \in {"cookies", "login"} : get_connection_added(w, how)
  \/ get_connection_add_failed(w)
  \/ get_connection_wake(w)
  \/ hold(w)
  \/ release_connection(w)
  \/ repost_media_return(w)

PoolNext ==
  \/ \E w \in Workers : Caller(w)
  \/ \E c \in FreshIds \cup {GlobalClient} : age(c)
  \/ cleanup_stale_connections_evict
  \/ cleanup_stale_connections_add
  \/ Tick

PoolSpec == Init /\ [][PoolNext]_vars

\* The limiters under any sequence of outcomes.
LimiterNext ==
  \/ \E c \in Classes : report_success(c)
  \/ \E c \in Classes : report_failure(c)

LimiterSpec == Init /\ [][LimiterNext]_vars

\* Threads calling the rate-limited methods of the global client.
WaitNext ==
  \/ \E w \in Workers, c \in Classes : wrapper_call(w, c)
  \/ \E w \in Workers :
       \/ wait_return(w)
       \/ wrapper_success(w)
       \/ wrapper_failure(w)
       \/ wrapper_retry(w)
  \/ clock

WaitSpec == Init /\ [][WaitNext]_vars

\* The memory monitor thread.
JanitorNext ==
  \/ cleanup_old_media_start
  \/ cleanup_old_media_break
  \/ cleanup_old_media_remove
  \/ cleanup_old_media_return

\* The process started with no connection made and MoviePy missing.
BareInit == Init /\ pool = <<>> /\ ~MOVIEPY_AVAILABLE

JanitorSpec == BareInit /\ [][JanitorNext]_vars

\* One worker taking items through repost_media, one after the other.
ItemNext ==
  \/ process_begin
  \/ download_single
  \/ convert_to_jpg
  \/ download_resource
  \/ upload
  \/ unsave_media
  \/ handle_media_file
  \/ commit
  \/ process_return

\* The process started with no connection made.
ItemInit == Init /\ pool = <<>>

ItemSpec == ItemInit /\ [][ItemNext]_vars

\* Calls of get_saved_posts.
FetchNext ==
  \/ get_saved_posts_call
  \/ get_saved_posts_try
  \/ get_saved_posts_exhausted
  \/ get_saved_posts_return

FetchSpec == BareInit /\ [][FetchNext]_vars

\* Calls of download_media.
DownloadNext ==
  \/ download_media_call
  \/ fetch_direct
  \/ fetch_wait
  \/ fetch_limited
  \/ download_media_return

DownloadSpec == BareInit /\ [][DownloadNext]_vars

\* Runs of check_and_repost up to the executor.
RunNext ==
  \/ check_and_repost_enter
  \/ check_and_repost_probe
  \/ check_and_repost_fetch
  \/ check_and_repost_return

RunSpec == BareInit /\ [][RunNext]_vars

\* SessionManager.refresh_if_needed called from the executor's threads.
SessionNext ==
  \/ \E w \in Workers : refresh_if_needed_enter(w)
  \/ \E w \in Workers : refresh_if_needed_probe(w)
  \/ \E w \in Workers : refresh_if_needed_relogin(w)
  \/ session_clock

SessionSpec == BareInit /\ [][SessionNext]_vars

\* The module executed from line 845 on, with main and memory_thread.
BootNext ==
  \/ main_guard
  \/ memory_thread_start
  \/ main_called
  \/ main_start
  \/ main_loop
  \/ main_interrupt
  \/ main_return
  \/ monitor_memory

\* The interpreter, main's loop and memory_thread each go on while they can;
\* nobody has to interrupt.
BootSpec ==
  /\ BareInit
  /\ [][BootNext]_vars
  /\ WF_vars(main_guard \/ memory_thread_start \/ main_start \/ main_loop
               \/ main_return)
  /\ WF_vars(monitor_memory)

\* Workers at their items' subfolders while memory_thread runs its passes.
StoreNext ==
  \/ \E w \in Workers : worker_makedirs(w)
  \/ \E w \in Workers : worker_download(w)
  \/ \E w \in Workers : worker_upload(w)
  \/ \E w \in Workers : worker_cleanup(w)
  \/ janitor_start
  \/ janitor_break
  \/ janitor_remove
  \/ janitor_return

StoreSpec == BareInit /\ [][StoreNext]_vars

\* One step of a thread that takes and releases a connection.
PoolUser(w) ==
  \/ pool_get_connection(w)
  \/ pool_test(w)
  \/ pool_locked(w)
  \/ pool_slept(w)
  \/ pool_release(w)
  \/ pool_timed_out(w)

TopUpNext ==
  \/ \E w \in Workers : PoolUser(w)
  \/ stale_evict
  \/ stale_add
  \/ auth_lost

\* Every thread that can go on does: the cleanup thread (lines 507-517),
\* and the executor's threads, which get the lock when it is free again and
\* again (the cleanup thread sleeps 1800 s between two passes).
\* Authentication may be lost at any time or never.
TopUpSpec ==
  /\ BareInit
  /\ [][TopUpNext]_vars
  /\ \A w \in Workers : SF_vars(PoolUser(w))
  /\ WF_vars(stale_evict \/ stale_add)

(* ---------------- properties ---------------- *)

\* C1: within one process lifetime no item id is published more than once,
\* whatever the listings, a listing naming the same id twice included.
C1_PublishedAtMostOnce == \A id \in Ids : pubLife[id] <= 1

\* C2: a task whose item was in the ledger when it started makes no like,
\* download, upload or unsave call, leaves the ledger alone and ends by the
\* skip: it never ends in the error handler.
C2_LedgerItemSkipped ==
  \A w \in Workers :
    startedInLedger[w] =>
      /\ ~called[w]
      /\ media[w] \in saved_posts_history
      /\ pc[w] \notin {"process", "save_open", "save_close", "timed_out"}
      /\ status[w] \in {"", "skipped"}

\* C3: an id is in the ledger only if an upload call for it was made and
\* returned, whatever the item's kind and product type.
C3_LedgerOnlyPublished == \A id \in saved_posts_history : pubLife[id] >= 1

\* C4: an item whose id a completed save_history put in the file is not
\* published again after a crash and restart.
C4_NoRepublishAfterCrash ==
  [][\A id \in committed :
       id \in saved_posts_history \/ pubLife'[id] <= pubLife[id]]_vars

\* C5: every id that a completed save_history put in the file is in the
\* ledger, also after a crash at any point and the restart that follows.
C5_LedgerDurable == committed \subseteq saved_posts_history

\* C6: when save_history fails after the upload, the task does not end as a
\* success and the id is not in the ledger.
C6_SaveFailureIsFailure ==
  \A w \in Workers :
    saveFailed[w] =>
      media[w] \notin saved_posts_history /\ status[w] # "success"

\* C7: no two threads hold the same connection at the same time.
C7_NoSharedConnection ==
  \A v, w \in Workers :
    v # w /\ client[v] # NoClient => client[v] # client[w]

\* C8: the pool never holds more than max_connections connections.
C8_PoolWithinMax == Len(pool) <= max_connections

C8_PoolAtMax == Len(pool) = max_connections /\ in_use # {}

\* C9 as stated: absent stale eviction, the pool holds at least
\* min_connections connections in every reachable state.
C9_AtLeastMin == ~evicted => Len(pool) >= min_connections

\* C9 amended: absent stale eviction, the pool holds at least
\* min_connections connections in every state after the first
\* cleanup_stale_connections pass has completed.
C9_AtLeastMinOnceCleaned ==
  cleaned /\ ~evicted => Len(pool) >= min_connections

C9_CleanedAtMin ==
  cleaned /\ ~evicted /\ Len(pool) = min_connections /\ in_use # {}

\* C10: a get_connection(timeout = T) call that finds the pool at
\* max_connections with every connection checked out, none being released,
\* never waits beyond T and raises TimeoutError at T.
C10_TimeoutWhenFull ==
  \A w \in Workers :
    fullSince[w] =>
      /\ pc[w] \in GcStates => elapsed[w] <= timeout[w]
      /\ pc[w] = "timed_out" => elapsed[w] = timeout[w]

C10_TimedOutWhenFull ==
  \E w \in Workers :
    fullSince[w] /\ pc[w] = "timed_out" /\ elapsed[w] = timeout[w]

\* C11: after N consecutive failure() calls from a reset state current_delay
\* is min(d * f^N, m), for every N >= 0; success() sets it back to d (N = 0).
C11_Backoff ==
  \A c \in Classes :
    limiter[c].current_delay =
      Min2(initial_delay(c) * Pow(backoff_factor, failures[c]), max_delay)

C11_BackoffCapped ==
  \E c \in Classes :
    /\ failures[c] >= 1
    /\ initial_delay(c) * Pow(backoff_factor, failures[c]) > max_delay
    /\ limiter[c].current_delay = max_delay

\* C12: on one limiter, wait() never returns sooner than current_delay after
\* its previous return.
C12_WaitSeparates == \A c \in Classes : ~early[c]

\* C13 as stated: the folders a pass has removed are all older than every
\* folder it has kept, also when a removal attempt fails.
C13_RemovedIsPrefix ==
  \A a \in mm.removed : \A b \in mm.present : a < b

\* C13 amended: a pass removes no folder younger than a folder it kept,
\* except for kept folders whose removal it attempted and that failed.
C13_RemovedIsPrefixButFailed ==
  \A a \in mm.removed : \A b \in mm.present : b < a => b \in mm.failed

C13_RemovedAndKept ==
  /\ mm.pc = "done"
  /\ mm.removed # {}
  /\ mm.failed = {}
  /\ \E b \in mm.present : \A a \in mm.removed : a < b

\* C14 as stated: a pass removes nothing at or under the quota, removes
\* only while over the quota, and ends at or under the quota or with no
\* subfolder left.
C14_MinimalToQuota ==
  mm.pc = "done" =>
    /\ mm.startSize <= max_folder_size_mb => mm.removed = {}
    /\ ~mm.needless
    /\ get_folder_size(mm) <= max_folder_size_mb \/ mm.present = {}

\* C14 amended: a pass attempts nothing at or under the quota, attempts a
\* removal only while over the quota, and ends at or under the quota or with
\* every subfolder that is left having failed removal in this pass.
C14_MinimalToQuotaButFailed ==
  mm.pc = "done" =>
    /\ mm.startSize <= max_folder_size_mb => mm.removed \cup mm.failed = {}
    /\ ~mm.needless
    /\ get_folder_size(mm) <= max_folder_size_mb \/ mm.present \subseteq mm.failed

C14_StoppedAtQuota ==
  /\ mm.pc = "done"
  /\ mm.removed # {}
  /\ mm.present # {}
  /\ mm.failed = {}
  /\ get_folder_size(mm) <= max_folder_size_mb

\* What download_media leaves for the resources of an album, in resource
\* order.
ResourceFiles(n) == [i \in 1..n |-> LocalFile("download", i)]

\* C15: for an album, every resource is tried whatever the others did; with
\* at least one download the upload is called with exactly the downloaded
\* paths in resource order; with none there is no upload call, the item
\* fails and the ledger is as it was.
C15_AlbumPartial ==
  (job.m.media_type = 8 /\ job.pc \in {"finally", "cleanup", "commit", "done"}) =>
    /\ job.tried = 1..job.m.resources
    /\ job.got # {} =>
         /\ job.upload_called
         /\ job.uploaded = SubSeqAt(ResourceFiles(job.m.resources), job.got)
    /\ job.got = {} =>
         /\ ~job.upload_called
         /\ ~job.repost_successful
         /\ saved_posts_history = job.ledger0

C15_AlbumOneFailed ==
  /\ job.pc = "done"
  /\ job.m.media_type = 8
  /\ job.got # {}
  /\ job.got # job.tried
  /\ job.upload_called
  /\ job.upload_ok

\* C16: an item whose download and upload succeeded ends in the ledger
\* whether media_unsave succeeded or failed, and an id enters the ledger
\* only after the unsave was attempted.
C16_UnsaveNeverReverts ==
  /\ (job.pc = "done" /\ job.got # {} /\ job.upload_called /\ job.upload_ok) =>
       /\ InLedger(job.m.id)
       /\ job.unsave \in {"ok", "failed"}
  /\ (job.pc # "idle" /\ InLedger(job.m.id)) =>
       /\ job.unsave # "none"
       /\ job.unsaveFirst

C16_CommittedThoughUnsaveFailed ==
  /\ job.pc = "done"
  /\ job.upload_called
  /\ job.upload_ok
  /\ job.unsave = "failed"
  /\ InLedger(job.m.id)

C20_EveryCallLimited == job.unlimited = {}

\* C19: get_saved_posts calls the four methods in the order All Posts
\* collection, Saved collection, first collection, direct saved listing;
\* every method before the last one called raised or gave nothing; a
\* non-empty result is the last called method's, and the result is empty
\* only when all four were called and none gave anything.
C19_FirstNonEmpty ==
  gsp.pc = "done" =>
    LET order == <<"All Posts collection", "Saved collection",
                   "First collection", "Direct saved posts">>
        n == Len(gsp.tried)
    IN /\ n \in 1..4
       /\ gsp.tried = SubSeq(order, 1, n)
       /\ \A k \in 1..(n - 1) : ~Truthy(gsp.outcome[k])
       /\ IF Truthy(gsp.outcome[n])
            THEN gsp.result = gsp.outcome[n].medias /\ gsp.result # <<>>
            ELSE gsp.result = <<>> /\ n = 4

C19_ThirdMethodWins ==
  /\ gsp.pc = "done"
  /\ Len(gsp.tried) = 3
  /\ gsp.outcome[1].kind = "raises"
  /\ gsp.outcome[2].kind # "raises"
  /\ gsp.result # <<>>

C21_ThreeFetches ==
  /\ dl.fetches <= 3
  /\ \A i \in 1..Len(dl.gaps) : dl.gaps[i] = <<5>>
  /\ dl.pc = "raised" => dl.fetches = 3

\* C22: an item that reaches the upload step makes one upload call, and
\* the call is the one for its kind: photo_upload for a photo,
\* video_upload for a video without product type, igtv_upload for igtv,
\* clip_upload for clips, album_upload for an album.
C22_OnePublishOfKind ==
  job.at_upload =>
    /\ job.upload_called
    /\ job.m.media_type = 1 => job.upload_method = "photo_upload"
    /\ job.m.media_type = 8 => job.upload_method = "album_upload"
    /\ (job.m.media_type = 2 /\ job.m.product_type = "") =>
         job.upload_method = "video_upload"
    /\ (job.m.media_type = 2 /\ job.m.product_type = "igtv") =>
         job.upload_method = "igtv_upload"
    /\ (job.m.media_type = 2 /\ job.m.product_type = "clips") =>
         job.upload_method = "clip_upload"

C24_ProbeThrice ==
  /\ run.probes <= 3
  /\ \A i \in 1..Len(run.gaps) : run.gaps[i] = <<10>>
  /\ ~run.connected => run.fetches = 0 /\ run.submitted = 0
  /\ (run.pc = "done" /\ ~run.connected /\ run.login # "failed") =>
       run.probes = 3
  /\ run.login = "failed" =>
       run.probes = 0 /\ run.fetches = 0 /\ run.submitted = 0

C24_ThreeProbesFailed ==
  /\ run.pc = "done"
  /\ run.probes = 3
  /\ ~run.connected
  /\ run.gaps = <<(<<10>>), (<<10>>)>>

\* C25: refresh_if_needed probes only when more than refresh_interval has
\* passed since last_refresh; last_refresh changes exactly when the probe or,
\* after a failed probe, the re-login succeeded; and at most one thread is
\* probing or re-logging in at a time.
C25_RefreshWhenDue ==
  /\ Cardinality({w \in Workers : sm.at[w] # "idle"}) <= 1
  /\ \A w \in Workers :
       sm.at[w] # "idle" =>
         /\ sm.lock = w
         /\ sm.now[w] - sm.last_refresh > refresh_interval
  /\ sm.last.changed <=> sm.last.ok
  /\ sm.last.ok => sm.last.probed

\* C25 witness: a probe failed and the re-login failed too, last_refresh
\* stayed, and the next caller is probing again.
C25_ProbingAgain ==
  /\ sm.last.probed /\ ~sm.last.ok /\ ~sm.last.changed
  /\ \E w \in Workers : sm.at[w] = "probe"

\* C26: while main is in its scheduler loop, cleanup_old_media is invoked
\* again and again: from any moment in the loop, a janitor pass follows (or
\* the loop has ended).
C26_JanitorKeepsRunning ==
  (boot.pc = "loop") ~> (boot.janitor = "cleaning" \/ boot.pc # "loop")

\* C27: the subfolder of an item whose file a worker has downloaded and not
\* yet cleaned up is never removed by cleanup_old_media.
C27_OwnedUntilCleanup ==
  \A w \in Workers :
    (store.wk[w].pc = "downloaded" \/
       (store.wk[w].pc = "cleanup" /\ store.wk[w].mb > 0))
      => store.wk[w].folder \in store.present

C29_CleanupEnds ==
  /\ (topup.lock = Cleaner) ~> (topup.lock = 0)
  /\ \A w \in Workers :
       (topup.at[w] \in {"test", "lock", "sleep"})
         ~> (topup.at[w] \in {"got", "timed_out"})

====
